---- MODULE Spec2Model ----
(***************************************************************************)
(* bq357: NMEA-0183 receiver library for the BQ-357 GNSS module.           *)
(*                                                                         *)
(* Several versions of namespace bq357 live in the repository; they are    *)
(* modelled here, each with its own actions:                               *)
(*                                                                         *)
(*  - the sentence-cache library (src/main.ts): readAndParseLine() caches  *)
(*    the last sentence of each type, parseGSV() merges satellites by id,  *)
(*    status() derives indoor/outdoor on demand;                           *)
(*  - its earlier copy (src/unnamed/part_000:1-285): status() tests the    *)
(*    age of the last valid fix first and writes nothing;                  *)
(*  - the RMC-decoder library (src/unnamed/part_000:286-502): log() hands  *)
(*    the line it reads to parseSingleLine(), which sets _fixed/_utc/...   *)
(*    and rebuilds the catalogs with sequence reset;                       *)
(*  - its cycle version (src/unnamed/part_001:241-474): log() captures the *)
(*    lines of one cycle and hands them to the same parseSingleLine();     *)
(*  - its handler versions (src/unnamed/part_001:1-240 and part_002):      *)
(*    start() registers a handler that decodes every line received.        *)
(*                                                                         *)
(* Fibers take turns: a call runs until it waits for the serial port       *)
(* (serial.readLine, serial.readUntil), and other calls run during the     *)
(* wait.  Every such wait ends a step of the model.                        *)
(*                                                                         *)
(* A line is the sequence of its comma-separated fields (line.split(",")), *)
(* every field a string; the empty line "" is <<"">>.                      *)
(***************************************************************************)
EXTENDS Integers, Sequences, FiniteSets, TLC

VARIABLES
    isGnssSerial,     \* main.ts: serial port is switched to the GNSS module
    reading,          \* main.ts: the readAndParseLine() calls waiting in serial.readLine()
    lastGGA,          \* main.ts: last GGA line received
    lastRMC,          \* main.ts: last RMC line received
    lastVTG,          \* main.ts: last VTG line received
    lastGSA,          \* main.ts: last GSA line received
    lastGSV,          \* main.ts: last GSV line received
    gpsSatellites,    \* main.ts: GPS catalog
    bdsSatellites,    \* main.ts: BeiDou catalog
    lastValidFixMs,   \* main.ts: time of the last valid fix
    millis,           \* control.millis(): the running time in ms
    burst,            \* receiver side: the GSV burst being sent and its position
    lastQualMs,       \* receiver side: time the last qualifying sentence was read
    delivered,        \* receiver side: the line readAndParseLine() read last
    logRepeats,       \* receiver side: log() read the same line this many times in a row
    _moduleTxPin,     \* part_000: pin wired to the module's TX, or "null"
    _moduleRxPin,     \* part_000: pin wired to the module's RX, or "null"
    _lastRawLine,     \* part_000: the line log() captured last
    logReading,       \* part_000: the log() calls waiting in serial.readUntil()
    _fixed,           \* part_000: fix flag
    _utc,             \* part_000: hhmmss of the last valid RMC
    _lat,             \* part_000: latitude ddmm.mmmm, a number
    _ns,              \* part_000: N or S
    _lon,             \* part_000: longitude dddmm.mmmm, a number
    _ew,              \* part_000: E or W
    _speedKmh,        \* part_000: speed in km/h, a rounded number
    _gpsSatellites,   \* part_000: GPS catalog
    _beidouSatellites, \* part_000: BeiDou catalog
    _cycleLines,      \* part_001: the lines log() captured in this cycle
    _lastRawCycle,    \* part_001: the captured cycle, joined
    lineCount,        \* part_001 log(): lines captured so far, by the call of each fiber
    seenGGA,          \* part_001 log(): a GGA line was captured, by the call of each fiber
    logPc,            \* part_001 log(): "idle" or "capture", for each fiber
    sent,             \* receiver side: lines of the stream read so far
    cycles,           \* receiver side: log() calls made so far
    starting,         \* start(): the calls waiting in serial.readUntil(), by library
    handler,          \* start(): the library whose handler reads the port, or "none"
    _satellites,      \* part_002: the catalog of both constellations
    reads,            \* receiver side: line reads of the log() call of each fiber
    stream,           \* receiver side: what the module sends during log()
    stampNoCalls      \* SpecQuery: lastValidFixMs had no accessor been called

mainVars == <<isGnssSerial, lastGGA, lastRMC, lastVTG, lastGSA, lastGSV,
              gpsSatellites, bdsSatellites, lastValidFixMs>>
logVars == <<_moduleTxPin, _moduleRxPin, _lastRawLine, logReading, _fixed, _utc, _lat, _ns,
             _lon, _ew, _speedKmh, _gpsSatellites, _beidouSatellites>>
cycleVars == <<_cycleLines, _lastRawCycle, lineCount, seenGGA, logPc, sent,
               cycles>>
envVars == <<burst, lastQualMs, delivered, logRepeats, reads, stream,
            stampNoCalls>>
startVars == <<starting, handler, _satellites>>
vars == <<mainVars, reading, millis, envVars, logVars, cycleVars, startVars>>

-----------------------------------------------------------------------------
(* Strings, as JavaScript treats them.                                     *)

Min(a, b) == IF a < b THEN a ELSE b
Max(a, b) == IF a > b THEN a ELSE b

\* s.charAt(i), i counted from 0; "" when out of range.
charAt(s, i) == IF i >= 0 /\ i < Len(s) THEN SubSeq(s, i + 1, i + 1) ELSE ""

\* s.substr(start, length): a negative start counts from the end.
substr(s, start, length) ==
    LET from == IF start < 0 THEN Max(Len(s) + start, 0) ELSE Min(start, Len(s))
        to == Min(from + Max(length, 0), Len(s))
    IN SubSeq(s, from + 1, to)

\* s.substr(start): to the end of the string.
substrFrom(s, start) == substr(s, start, Len(s))

\* s.includes(t)
includes(s, t) ==
    \E i \in 0..(Len(s) - Len(t)) : SubSeq(s, i + 1, i + Len(t)) = t

\* The vertical tab, which has no escape in a string.
VerticalTab == ""

\* White space for trim() and the number parsers: of JavaScript's white
\* space and line terminators, those a string of the model can hold (the
\* no-break space and the other spaces past ASCII cannot be written).
IsSpace(c) == c \in {" ", "\t", "\n", VerticalTab, "\f", "\r"}

\* The number of white-space characters of s from position i on, counted
\* from 1, up to the first character that is none.
RECURSIVE SpaceRunFrom(_, _)
SpaceRunFrom(s, i) ==
    IF i <= Len(s) /\ IsSpace(SubSeq(s, i, i)) THEN 1 + SpaceRunFrom(s, i + 1) ELSE 0

\* The number of white-space characters of s from position i back.
RECURSIVE SpaceRunBack(_, _)
SpaceRunBack(s, i) ==
    IF i >= 1 /\ IsSpace(SubSeq(s, i, i)) THEN 1 + SpaceRunBack(s, i - 1) ELSE 0

trimStart(s) == SubSeq(s, SpaceRunFrom(s, 1) + 1, Len(s))

trimEnd(s) == SubSeq(s, 1, Len(s) - SpaceRunBack(s, Len(s)))

\* s.trim()
trim(s) == trimEnd(trimStart(s))

\* The characters of the first n fields.
RECURSIVE FieldChars(_, _)
FieldChars(parts, n) ==
    IF n = 0 THEN 0 ELSE Len(parts[n]) + FieldChars(parts, n - 1)

\* line.length of the joined line: the fields and the commas between them.
lineLength(line) == FieldChars(line, Len(line)) + Len(line) - 1

\* The empty string as a line: "".split(",") is [""].
EmptyLine == <<"">>

\* parts[i], i counted from 0.
At(parts, i) == parts[i + 1]

-----------------------------------------------------------------------------
(* Numbers.  parseInt and parseFloat read the longest numeric prefix and   *)
(* give NaN when there is none.  parseInt gives a whole number, held as    *)
(* [nan, val]; the numbers of parseFloat and of the arithmetic on them are *)
(* doubles, further below.                                                 *)

DigitChars == <<"0", "1", "2", "3", "4", "5", "6", "7", "8", "9">>

IsDigit(c) == c \in {"0", "1", "2", "3", "4", "5", "6", "7", "8", "9"}

DigitVal(c) == (CHOOSE d \in 1..10 : DigitChars[d] = c) - 1

\* The number of decimal digits of s from position i on, counted from 1, up
\* to the first character that is none.
RECURSIVE DigitRunFrom(_, _)
DigitRunFrom(s, i) ==
    IF i <= Len(s) /\ IsDigit(SubSeq(s, i, i)) THEN 1 + DigitRunFrom(s, i + 1) ELSE 0

\* The number of leading decimal digits of s.
DigitRun(s) == DigitRunFrom(s, 1)

\* The value of the first n characters of s, decimal digits.
RECURSIVE DigitsValTo(_, _)
DigitsValTo(s, n) ==
    IF n = 0 THEN 0 ELSE 10 * DigitsValTo(s, n - 1) + DigitVal(SubSeq(s, n, n))

\* The value of a string of decimal digits.
DigitsVal(s) == DigitsValTo(s, Len(s))

\* The letters of a hexadecimal digit, lower and upper case.
HexLower == <<"a", "b", "c", "d", "e", "f">>
HexUpper == <<"A", "B", "C", "D", "E", "F">>

IsHexDigit(c) == IsDigit(c) \/ \E d \in 1..6 : c \in {HexLower[d], HexUpper[d]}

HexDigitVal(c) ==
    IF IsDigit(c) THEN DigitVal(c)
    ELSE 9 + (CHOOSE d \in 1..6 : c \in {HexLower[d], HexUpper[d]})

\* The number of hexadecimal digits of s from position i on.
RECURSIVE HexRunFrom(_, _)
HexRunFrom(s, i) ==
    IF i <= Len(s) /\ IsHexDigit(SubSeq(s, i, i)) THEN 1 + HexRunFrom(s, i + 1) ELSE 0

\* The value of the first n characters of s, hexadecimal digits.
RECURSIVE HexValTo(_, _)
HexValTo(s, n) ==
    IF n = 0 THEN 0 ELSE 16 * HexValTo(s, n - 1) + HexDigitVal(SubSeq(s, n, n))

\* The value of a string of hexadecimal digits.
HexVal(s) == HexValTo(s, Len(s))

RECURSIVE Pow10(_)
Pow10(k) == IF k = 0 THEN 1 ELSE 10 * Pow10(k - 1)

\* The position of the first character of s other than "0", counted from 1:
\* Len(s) + 1 when there is none.
FirstNonZero(s) ==
    IF \A i \in 1..Len(s) : SubSeq(s, i, i) = "0" THEN Len(s) + 1
    ELSE CHOOSE i \in 1..Len(s) :
             SubSeq(s, i, i) # "0" /\ \A j \in 1..(i - 1) : SubSeq(s, j, j) = "0"

\* The position of the last character of s other than "0": 0 when there is
\* none.
LastNonZero(s) ==
    IF \A i \in 1..Len(s) : SubSeq(s, i, i) = "0" THEN 0
    ELSE CHOOSE i \in 1..Len(s) :
             SubSeq(s, i, i) # "0" /\ \A j \in (i + 1)..Len(s) : SubSeq(s, j, j) = "0"

\* The digits without the zeros at their end.
StripZeros(str) == SubSeq(str, 1, LastNonZero(str))

\* n.toString() for an integer n >= 0.
RECURSIVE NatToStr(_)
NatToStr(n) ==
    IF n < 10 THEN DigitChars[n + 1]
    ELSE NatToStr(n \div 10) \o DigitChars[(n % 10) + 1]

\* The digits of n, zero-padded on the left to the given width.
RECURSIVE PadZero(_, _)
PadZero(str, width) == IF Len(str) >= width THEN str ELSE PadZero("0" \o str, width)

NaN == [nan |-> TRUE, val |-> 0]
Num(v) == [nan |-> FALSE, val |-> v]

\* s without the sign at its start.
Unsigned(s) ==
    IF Len(s) > 0 /\ SubSeq(s, 1, 1) \in {"-", "+"} THEN SubSeq(s, 2, Len(s)) ELSE s

\* The whole number of a sign and the digits read to a radix of 10 or 16:
\* NaN where no digit was read.
wholeOf(neg, digits, radix) ==
    IF digits = "" THEN NaN
    ELSE Num((IF neg THEN 0 - 1 ELSE 1)
                 * (IF radix = 16 THEN HexVal(digits) ELSE DigitsVal(digits)))

\* parseInt of a sign and what follows it: 0x or 0X and hexadecimal digits,
\* decimal digits otherwise.
parseIntBody(neg, body) ==
    IF Len(body) > 1 /\ SubSeq(body, 1, 1) = "0" /\ SubSeq(body, 2, 2) \in {"x", "X"}
    THEN wholeOf(neg, SubSeq(body, 3, 2 + HexRunFrom(body, 3)), 16)
    ELSE wholeOf(neg, SubSeq(body, 1, DigitRunFrom(body, 1)), 10)

\* parseInt of a string without white space at its start.
parseIntTrimmed(t) == parseIntBody(Len(t) > 0 /\ SubSeq(t, 1, 1) = "-", Unsigned(t))

\* parseInt(s): leading white space, an optional sign, an optional 0x or 0X
\* and then hexadecimal digits, decimal digits otherwise.
parseInt(s) == parseIntTrimmed(trimStart(s))

\* x || 0 for a whole number x: NaN and 0 are falsy.
OrZero(x) == IF x.nan THEN 0 ELSE x.val

\* x > 0 for a whole number x: false for NaN.
GtZero(x) == ~x.nan /\ x.val > 0

\* The digits frac after the point, nothing where there are none.
fractionOf(frac) == IF frac = "" THEN "" ELSE "." \o frac

\* "" + (n / 10^places) for an integer n: the decimal without zeros at its
\* end, as JavaScript prints a number of this size.
numberToString(n, places) ==
    (IF n < 0 THEN "-" ELSE "")
        \o NatToStr((IF n < 0 THEN 0 - n ELSE n) \div Pow10(places))
        \o fractionOf(StripZeros(PadZero(
               NatToStr((IF n < 0 THEN 0 - n ELSE n) % Pow10(places)), places)))

\* [q, r] for q + (r + add) / c, where r and add are below c.
mulDivSum(q, r, add, c) ==
    IF r + add >= c THEN [q |-> q + 1, r |-> r + add - c]
    ELSE [q |-> q, r |-> r + add]

\* [q, r] with a * b = q * c + r and 0 <= r < c, for a, b >= 0 and c > 0,
\* by halving b: nothing on the way is larger than the result or 2 * c.
RECURSIVE mulDiv(_, _, _)
mulDiv(a, b, c) ==
    IF b = 0 THEN [q |-> 0, r |-> 0]
    ELSE LET h == mulDiv(a, b \div 2, c)
         IN mulDivSum(2 * h.q + (IF 2 * h.r >= c THEN 1 ELSE 0)
                          + (IF b % 2 = 1 THEN a \div c ELSE 0),
                      IF 2 * h.r >= c THEN 2 * h.r - c ELSE 2 * h.r,
                      IF b % 2 = 1 THEN a % c ELSE 0,
                      c)

-----------------------------------------------------------------------------
(* Natural numbers of any size, for the arithmetic of doubles: the digits  *)
(* to the base 2^15, lowest first, the highest one not 0; <<>> is 0.  The  *)
(* operators split their range in halves, so none nests deeper than the    *)
(* logarithm of the length.                                                *)

RECURSIVE Pow2(_)
Pow2(k) == IF k = 0 THEN 1 ELSE 2 * Pow2(k - 1)

\* The number of binary digits of n.
RECURSIVE NatBits(_)
NatBits(n) == IF n = 0 THEN 0 ELSE 1 + NatBits(n \div 2)

\* The position of the lowest binary 1 of n > 0, counted from 1.
RECURSIVE NatLowOne(_)
NatLowOne(n) == IF n % 2 = 1 THEN 1 ELSE 1 + NatLowOne(n \div 2)

\* The highest position in lo..hi at which a has a digit other than 0, or 0.
RECURSIVE BigTop(_, _, _)
BigTop(a, lo, hi) ==
    IF lo > hi THEN 0
    ELSE IF lo = hi THEN (IF a[lo] # 0 THEN lo ELSE 0)
    ELSE LET mid == (lo + hi) \div 2
             up == BigTop(a, mid + 1, hi)
         IN IF up # 0 THEN up ELSE BigTop(a, lo, mid)

\* The lowest position in lo..hi at which a has a digit other than 0, or 0.
RECURSIVE BigLow(_, _, _)
BigLow(a, lo, hi) ==
    IF lo > hi THEN 0
    ELSE IF lo = hi THEN (IF a[lo] # 0 THEN lo ELSE 0)
    ELSE LET mid == (lo + hi) \div 2
             down == BigLow(a, lo, mid)
         IN IF down # 0 THEN down ELSE BigLow(a, mid + 1, hi)

\* The digits without the zeros at their high end.
BigNorm(a) == SubSeq(a, 1, BigTop(a, 1, Len(a)))

RECURSIVE BigOfNat(_)
BigOfNat(n) == IF n = 0 THEN <<>> ELSE <<n % 32768>> \o BigOfNat(n \div 32768)

\* The value of a number below 2^31.
RECURSIVE BigToNat(_)
BigToNat(a) == IF a = <<>> THEN 0 ELSE a[1] + 32768 * BigToNat(Tail(a))

BigOne == <<1>>

\* The digit at position i, 0 past the end.
BigDigit(a, i) == IF i <= Len(a) THEN a[i] ELSE 0

\* The number of binary digits of a.
BigBits(a) ==
    IF a = <<>> THEN 0 ELSE 15 * (Len(a) - 1) + NatBits(a[Len(a)])

\* The binary digit of a at position i, positions counted from 1.
BigBit(a, i) ==
    (BigDigit(a, (i - 1) \div 15 + 1) \div Pow2((i - 1) % 15)) % 2

\* The position of the lowest binary 1 of a, counted from 1; 0 for a = 0.
BigLowOne(a) ==
    IF a = <<>> THEN 0
    ELSE 15 * (BigLow(a, 1, Len(a)) - 1) + NatLowOne(a[BigLow(a, 1, Len(a))])

\* The sign of a - b over the positions lo..hi.
RECURSIVE BigCmpIn(_, _, _, _)
BigCmpIn(a, b, lo, hi) ==
    IF lo = hi THEN a[lo] - b[lo]
    ELSE LET mid == (lo + hi) \div 2
             up == BigCmpIn(a, b, mid + 1, hi)
         IN IF up # 0 THEN up ELSE BigCmpIn(a, b, lo, mid)

\* Below 0, 0 or above 0 as a is less than, equal to or greater than b.
BigCmp(a, b) ==
    IF Len(a) # Len(b) THEN Len(a) - Len(b)
    ELSE IF a = <<>> THEN 0
    ELSE BigCmpIn(a, b, 1, Len(a))

\* The digits lo..hi of a + b + carry, and the carry out of them.
RECURSIVE BigAddIn(_, _, _, _, _)
BigAddIn(a, b, lo, hi, carry) ==
    IF lo = hi
    THEN LET sum == BigDigit(a, lo) + BigDigit(b, lo) + carry
         IN [digits |-> <<sum % 32768>>, carry |-> sum \div 32768]
    ELSE LET mid == (lo + hi) \div 2
             low == BigAddIn(a, b, lo, mid, carry)
             high == BigAddIn(a, b, mid + 1, hi, low.carry)
         IN [digits |-> low.digits \o high.digits, carry |-> high.carry]

\* The digits with the carry out of them, where there is one.
BigCarried(sum) ==
    IF sum.carry # 0 THEN sum.digits \o <<sum.carry>> ELSE sum.digits

BigAdd(a, b) ==
    IF a = <<>> THEN b
    ELSE IF b = <<>> THEN a
    ELSE BigCarried(BigAddIn(a, b, 1, Max(Len(a), Len(b)), 0))

\* The digits lo..hi of a - b - borrow, and the borrow out of them.
RECURSIVE BigSubIn(_, _, _, _, _)
BigSubIn(a, b, lo, hi, borrow) ==
    IF lo = hi
    THEN LET d == a[lo] - BigDigit(b, lo) - borrow
         IN [digits |-> <<d % 32768>>, borrow |-> IF d < 0 THEN 1 ELSE 0]
    ELSE LET mid == (lo + hi) \div 2
             low == BigSubIn(a, b, lo, mid, borrow)
             high == BigSubIn(a, b, mid + 1, hi, low.borrow)
         IN [digits |-> low.digits \o high.digits, borrow |-> high.borrow]

\* a - b for a >= b
BigSub(a, b) ==
    IF b = <<>> THEN a ELSE BigNorm(BigSubIn(a, b, 1, Len(a), 0).digits)

\* The digits lo..hi of a * d + carry for one digit d, and the carry out.
RECURSIVE BigTimesIn(_, _, _, _, _)
BigTimesIn(a, d, lo, hi, carry) ==
    IF lo = hi
    THEN LET p == a[lo] * d + carry
         IN [digits |-> <<p % 32768>>, carry |-> p \div 32768]
    ELSE LET mid == (lo + hi) \div 2
             low == BigTimesIn(a, d, lo, mid, carry)
             high == BigTimesIn(a, d, mid + 1, hi, low.carry)
         IN [digits |-> low.digits \o high.digits, carry |-> high.carry]

\* a * d for one digit d
BigTimes(a, d) ==
    IF a = <<>> \/ d = 0 THEN <<>>
    ELSE BigCarried(BigTimesIn(a, d, 1, Len(a), 0))

\* a * 32768^k
BigUp(a, k) == IF a = <<>> THEN <<>> ELSE [i \in 1..k |-> 0] \o a

\* a times the digits lo..hi of b, at their positions.
RECURSIVE BigMulIn(_, _, _, _)
BigMulIn(a, b, lo, hi) ==
    IF lo = hi THEN BigUp(BigTimes(a, b[lo]), lo - 1)
    ELSE LET mid == (lo + hi) \div 2
         IN BigAdd(BigMulIn(a, b, lo, mid), BigMulIn(a, b, mid + 1, hi))

BigMul(a, b) ==
    IF a = <<>> \/ b = <<>> THEN <<>>
    ELSE IF Len(a) >= Len(b) THEN BigMulIn(a, b, 1, Len(b))
    ELSE BigMulIn(b, a, 1, Len(a))

\* a * 2^k
BigShl(a, k) == BigUp(BigTimes(a, Pow2(k % 15)), k \div 15)

\* floor(a / 2^k)
\* The digits of a from position from + 1 on, divided by low, a power of 2
\* below 32768.
BigShrBy(a, from, low) ==
    BigNorm([i \in 1..(Len(a) - from) |->
                a[from + i] \div low
                    + (BigDigit(a, from + i + 1) % low) * (32768 \div low)])

BigShr(a, k) == BigShrBy(a, k \div 15, Pow2(k % 15))

\* One step of the long division of st.r by b: the binary digit of the
\* quotient at position st.k + 1, put after the digits st.q found so far.
BigDivDigit(st, part, fits) ==
    [r |-> IF fits THEN BigSub(st.r, part) ELSE st.r,
     q |-> BigAdd(BigTimes(st.q, 2), IF fits THEN BigOne ELSE <<>>),
     k |-> st.k - 1]

BigDivPart(st, part) == BigDivDigit(st, part, BigCmp(st.r, part) >= 0)

BigDivStep(st, b) == BigDivPart(st, BigShl(b, st.k))

\* n steps of the long division, as far as there are positions left.
RECURSIVE BigDivSteps(_, _, _)
BigDivSteps(n, st, b) ==
    IF n = 1 THEN BigDivStep(st, b)
    ELSE LET half == BigDivSteps(n \div 2, st, b)
         IN IF half.k < 0 THEN half ELSE BigDivSteps(n - n \div 2, half, b)

\* [q, r, k] with a = q * b + r and r < b, for b > 0.
BigDivFrom(a, b, k) ==
    IF k < 0 THEN [r |-> a, q |-> <<>>, k |-> k]
    ELSE BigDivSteps(k + 1, [r |-> a, q |-> <<>>, k |-> k], b)

BigDivMod(a, b) == BigDivFrom(a, b, BigBits(a) - BigBits(b))

RECURSIVE BigPow10(_)
BigPow10(k) ==
    IF k = 0 THEN BigOne
    ELSE LET half == BigPow10(k \div 2)
         IN IF k % 2 = 1 THEN BigTimes(BigMul(half, half), 10)
            ELSE BigMul(half, half)

\* The number a string of decimal digits writes.
RECURSIVE BigOfDigits(_)
BigOfDigits(s) ==
    IF Len(s) <= 9 THEN BigOfNat(DigitsVal(s))
    ELSE LET mid == Len(s) \div 2
         IN BigAdd(BigMul(BigOfDigits(SubSeq(s, 1, mid)), BigPow10(Len(s) - mid)),
                   BigOfDigits(SubSeq(s, mid + 1, Len(s))))

\* The decimal digits of a, nine at a time.
RECURSIVE BigToDigits(_)
BigToDigitsOf(d) ==
    IF d.q = <<>> THEN NatToStr(BigToNat(d.r))
    ELSE BigToDigits(d.q) \o PadZero(NatToStr(BigToNat(d.r)), 9)

BigToDigits(a) ==
    IF BigBits(a) <= 29 THEN NatToStr(BigToNat(a))
    ELSE BigToDigitsOf(BigDivMod(a, BigPow10(9)))

-----------------------------------------------------------------------------
(* IEEE 754 doubles, the numbers of JavaScript.  A double is NaN, plus or  *)
(* minus Infinity, or (-1)^neg * m * 2^e with m below 2^53 and odd, or 0   *)
(* (the sign of a zero shows in nothing the library prints and is not      *)
(* kept).  Every operation gives the double nearest to the exact result,   *)
(* the even one of two equally near.                                       *)

DblNaN == [nan |-> TRUE, inf |-> FALSE, neg |-> FALSE, m |-> <<>>, e |-> 0]
DblInfinity(neg) == [nan |-> FALSE, inf |-> TRUE, neg |-> neg, m |-> <<>>, e |-> 0]
DblZero == [nan |-> FALSE, inf |-> FALSE, neg |-> FALSE, m |-> <<>>, e |-> 0]

\* (-1)^neg * m * 2^e for m # 0 with its lowest binary 1 at position low.
DblFrom(neg, m, e, low) ==
    [nan |-> FALSE, inf |-> FALSE, neg |-> neg,
     m |-> BigShr(m, low - 1), e |-> e + low - 1]

\* (-1)^neg * m * 2^e, with the zeros at the low end of m taken into e.
Dbl(neg, m, e) == IF m = <<>> THEN DblZero ELSE DblFrom(neg, m, e, BigLowOne(m))

DblIsZero(x) == ~x.nan /\ ~x.inf /\ x.m = <<>>

\* The double of an integer below 2^31.
DblOfInt(i) == Dbl(i < 0, BigOfNat(IF i < 0 THEN 0 - i ELSE i), 0)

\* (-1)^neg * m * 2^e, Infinity where it is past the largest double.
DblRanged(neg, m, e) ==
    IF BigBits(m) + e > 1024 THEN DblInfinity(neg) ELSE Dbl(neg, m, e)

\* The quotient div.q with remainder div.r, in units of 2^e, without its
\* lowest cut binary digits, which leaves kept: one more where the digits
\* cut off and the remainder come to more than a half, or to a half with
\* kept odd.
DblKept(neg, div, cut, kept, e) ==
    DblRanged(neg,
              IF BigBit(div.q, cut) = 1
                   /\ (div.r # <<>> \/ BigLowOne(div.q) < cut \/ BigBit(kept, 1) = 1)
              THEN BigAdd(kept, BigOne) ELSE kept,
              e + cut)

DblCut(neg, div, cut, e) == DblKept(neg, div, cut, BigShr(div.q, cut), e)

\* The quotient cut to 53 binary digits, fewer where the double is
\* subnormal.
DblDivided(neg, div, e) ==
    DblCut(neg, div, Max(BigBits(div.q) - 53, (0 - 1074) - e), e)

\* The quotient of n * 2^k by d, in units of 2^(s - k).
DblScaled(neg, n, d, s, k) ==
    DblDivided(neg,
               BigDivMod(IF k > 0 THEN BigShl(n, k) ELSE n,
                         IF k < 0 THEN BigShl(d, 0 - k) ELSE d),
               s - k)

\* The double nearest to (-1)^neg * n / d * 2^s, for d > 0: the quotient of
\* n * 2^k by d to 55 or 56 digits, cut and rounded.
DblNearest(neg, n, d, s) ==
    IF n = <<>> THEN DblZero
    ELSE DblScaled(neg, n, d, s, 55 - (BigBits(n) - BigBits(d)))

\* The double a decimal literal (-1)^neg * digits * 10^exp is read as.
DblOfDecimal(neg, digits, exp) ==
    IF digits = "" THEN DblZero
    ELSE IF Len(digits) + exp > 310 THEN DblInfinity(neg)
    ELSE IF Len(digits) + exp < 0 - 330 THEN DblZero
    ELSE DblNearest(neg,
                    BigMul(BigOfDigits(digits), BigPow10(Max(exp, 0))),
                    BigPow10(Max(0 - exp, 0)), 0)

\* -x
DblNeg(x) == IF x.nan \/ DblIsZero(x) THEN x ELSE [x EXCEPT !.neg = ~@]

\* x * y
DblMul(x, y) ==
    IF x.nan \/ y.nan THEN DblNaN
    ELSE IF x.inf \/ y.inf
    THEN (IF DblIsZero(x) \/ DblIsZero(y) THEN DblNaN
          ELSE DblInfinity(x.neg # y.neg))
    ELSE DblNearest(x.neg # y.neg, BigMul(x.m, y.m), BigOne, x.e + y.e)

\* x / y
DblDiv(x, y) ==
    IF x.nan \/ y.nan THEN DblNaN
    ELSE IF x.inf THEN (IF y.inf THEN DblNaN ELSE DblInfinity(x.neg # y.neg))
    ELSE IF y.inf THEN DblZero
    ELSE IF DblIsZero(y)
    THEN (IF DblIsZero(x) THEN DblNaN ELSE DblInfinity(x.neg # y.neg))
    ELSE DblNearest(x.neg # y.neg, x.m, y.m, x.e - y.e)

\* The position above the highest binary digit of a finite x # 0:
\* |x| is below 2^DblTop(x) and not below half of it.
DblTop(x) == BigBits(x.m) + x.e

\* x + y for a = |x| and b = |y| in units of 2^e.
DblAddAligned(x, y, a, b, e) ==
    IF x.neg = y.neg THEN DblNearest(x.neg, BigAdd(a, b), BigOne, e)
    ELSE IF BigCmp(a, b) = 0 THEN DblZero
    ELSE IF BigCmp(a, b) > 0 THEN DblNearest(x.neg, BigSub(a, b), BigOne, e)
    ELSE DblNearest(y.neg, BigSub(b, a), BigOne, e)

DblAddAt(x, y, e) ==
    DblAddAligned(x, y, BigShl(x.m, x.e - e), BigShl(y.m, y.e - e), e)

\* x + y for finite x and y, neither 0: where one lies more than 64 binary
\* digits above the other the sum is the larger one, otherwise the exact
\* sum is rounded.
DblAddFinite(x, y) ==
    IF DblTop(x) - DblTop(y) > 64 THEN x
    ELSE IF DblTop(y) - DblTop(x) > 64 THEN y
    ELSE DblAddAt(x, y, Min(x.e, y.e))

\* x + y
DblAdd(x, y) ==
    IF x.nan \/ y.nan THEN DblNaN
    ELSE IF x.inf THEN (IF y.inf /\ x.neg # y.neg THEN DblNaN ELSE x)
    ELSE IF y.inf THEN y
    ELSE IF DblIsZero(x) THEN y
    ELSE IF DblIsZero(y) THEN x
    ELSE DblAddFinite(x, y)

\* Math.round(x): the integer nearest to x, a half going up, also below 0.
DblRound(x) ==
    IF x.nan \/ x.inf \/ x.e >= 0 THEN x
    ELSE Dbl(x.neg,
             IF BigBit(x.m, 0 - x.e) = 1 /\ (~x.neg \/ x.e < 0 - 1)
             THEN BigAdd(BigShr(x.m, 0 - x.e), BigOne)
             ELSE BigShr(x.m, 0 - x.e),
             0)

\* Whether |x| >= 10^p for a finite x # 0.
DblReaches(x, p) ==
    BigCmp(BigMul(BigShl(x.m, Max(x.e, 0)), BigPow10(Max(0 - p, 0))),
           BigShl(BigPow10(Max(p, 0)), Max(0 - x.e, 0))) >= 0

DblDecimalTopFrom(x, guess) ==
    IF DblReaches(x, guess + 1) THEN guess + 2
    ELSE IF DblReaches(x, guess) THEN guess + 1
    ELSE guess

\* The n with 10^(n-1) <= |x| < 10^n for a finite x # 0: log10(2) is
\* 0.30103 closely enough to be out by one at most, which the comparison
\* settles.
DblDecimalTop(x) == DblDecimalTopFrom(x, ((DblTop(x) - 1) * 30103) \div 100000)

\* Whether the decimal s * 10^p reads as the finite double x.
DblReads(x, s, p) ==
    s # <<>> /\ DblNearest(x.neg, BigMul(s, BigPow10(Max(p, 0))),
                           BigPow10(Max(0 - p, 0)), 0) = x

\* Of the decimals lo and hi = lo + 1 the one that reads back, the nearer
\* one of two, in a sequence that is empty when neither does.
DblPick(lo, hi, loReads, hiReads, loFirst) ==
    IF loReads /\ hiReads THEN (IF loFirst THEN <<lo>> ELSE <<hi>>)
    ELSE IF loReads THEN <<lo>>
    ELSE IF hiReads THEN <<hi>>
    ELSE <<>>

\* side: below 0, 0 or above 0 as x is nearer to lo, in the middle or
\* nearer to hi.
DblSide(x, p, lo, hi, side) ==
    DblPick(lo, hi, DblReads(x, lo, p), DblReads(x, hi, p),
            side < 0 \/ (side = 0 /\ BigBit(lo, 1) = 0))

DblBetween(x, p, div, den) ==
    IF div.r = <<>> THEN <<div.q>>
    ELSE DblSide(x, p, div.q, BigAdd(div.q, BigOne), BigCmp(BigShl(div.r, 1), den))

DblOver(x, p, num, den) == DblBetween(x, p, BigDivMod(num, den), den)

\* The decimal of c digits next to a finite x # 0 that reads back as x, in
\* a sequence that is empty when there is none: s stands for
\* s * 10^(n - c).
DblCandidates(x, n, c) ==
    DblOver(x, n - c,
            BigMul(BigShl(x.m, Max(x.e, 0)), BigPow10(Max(c - n, 0))),
            BigShl(BigPow10(Max(n - c, 0)), Max(0 - x.e, 0)))

\* [digits, point] for the decimal 0.digits * 10^point that the c digits
\* all write, the number below 10^n.
DblDigits(all, n, c) == [digits |-> StripZeros(all), point |-> n + Len(all) - c]

\* The shortest decimal that reads back as x, from c digits on.
RECURSIVE DblShortestFrom(_, _, _)
DblShortestFound(x, n, c, found) ==
    IF found = <<>> THEN DblShortestFrom(x, n, c + 1)
    ELSE DblDigits(BigToDigits(found[1]), n, c)

DblShortestFrom(x, n, c) == DblShortestFound(x, n, c, DblCandidates(x, n, c))

DblShortest(x) == DblShortestFrom(x, DblDecimalTop(x), 1)

-----------------------------------------------------------------------------
(* A number of the library is held as the decimal JavaScript prints for    *)
(* its double, the shortest one that reads back as the same double: NaN,   *)
(* plus or minus Infinity, or (-1)^neg * digits * 10^exp with no zero at   *)
(* either end of digits, "" for 0.                                         *)

FloatNaN == [nan |-> TRUE, inf |-> FALSE, neg |-> FALSE, digits |-> "", exp |-> 0]
Infinity(neg) == [nan |-> FALSE, inf |-> TRUE, neg |-> neg, digits |-> "", exp |-> 0]
FloatZero == [nan |-> FALSE, inf |-> FALSE, neg |-> FALSE, digits |-> "", exp |-> 0]

\* The number of the decimal short of a finite double x # 0.
FloatOfShortest(x, short) ==
    [nan |-> FALSE, inf |-> FALSE, neg |-> x.neg,
     digits |-> short.digits, exp |-> short.point - Len(short.digits)]

\* The number of a double.
FloatOf(x) ==
    IF x.nan THEN FloatNaN
    ELSE IF x.inf THEN Infinity(x.neg)
    ELSE IF DblIsZero(x) THEN FloatZero
    ELSE FloatOfShortest(x, DblShortest(x))

\* The double of a number.
DblOf(x) ==
    IF x.nan THEN DblNaN
    ELSE IF x.inf THEN DblInfinity(x.neg)
    ELSE DblOfDecimal(x.neg, x.digits, x.exp)

\* The number the decimal (-1)^neg * digits * 10^exp reads as, digits
\* without a zero at either end and not empty.  A decimal of up to 15
\* digits between 10^-300 and 10^300 is the shortest one of its double,
\* whatever its digits are; a longer one is read as the nearest double.
Float(neg, digits, exp) ==
    IF Len(digits) <= 15 /\ Len(digits) + exp <= 300
          /\ Len(digits) + exp >= 0 - 300
    THEN [nan |-> FALSE, inf |-> FALSE, neg |-> neg, digits |-> digits, exp |-> exp]
    ELSE FloatOf(DblOfDecimal(neg, digits, exp))

\* The number of the integer whose digits without a sign are all.
FloatOfDigits(neg, all) ==
    IF LastNonZero(all) = 0 THEN FloatZero
    ELSE Float(neg, StripZeros(all), Len(all) - LastNonZero(all))

\* The number of an integer below 2^31.
FloatOfInt(i) == FloatOfDigits(i < 0, NatToStr(IF i < 0 THEN 0 - i ELSE i))

\* The value of the digits of an exponent: one of more than 5 digits is
\* read as 99999, which gives Infinity or 0 as every larger one does.
exponentVal(digits) ==
    IF Len(digits) - FirstNonZero(digits) >= 5 THEN 99999
    ELSE DigitsVal(digits)

\* The exponent that follows the e or E at the start of s: an optional
\* sign and digits; 0 where there are none.
exponentOf(s) ==
    (IF charAt(s, 1) = "-" THEN 0 - 1 ELSE 1)
        * exponentVal(IF charAt(s, 1) \in {"-", "+"}
                      THEN substr(s, 2, DigitRun(substrFrom(s, 2)))
                      ELSE substr(s, 1, DigitRun(substrFrom(s, 1))))

\* The exponent at the start of s, 0 where s does not start with one.
exponentPart(s) == IF charAt(s, 0) \in {"e", "E"} THEN exponentOf(s) ELSE 0

\* The number of the digits all from first to last, in units of 10^exp
\* for the last of all.
FloatOfCut(neg, all, first, last, exp) ==
    IF first > last THEN FloatZero
    ELSE Float(neg, SubSeq(all, first, last), exp + Len(all) - last)

\* The number of the literal (-1)^neg * whole.frac * 10^exp, whole and frac
\* strings of decimal digits.
FloatOfLiteral(neg, whole, frac, exp) ==
    FloatOfCut(neg, whole \o frac, FirstNonZero(whole \o frac),
               LastNonZero(whole \o frac), exp - Len(frac))

\* The digits after a "." at the start of s, "" where there is none.
fractionPart(s) ==
    IF charAt(s, 0) = "." THEN substr(s, 1, DigitRun(substrFrom(s, 1))) ELSE ""

\* What follows the fraction frac at the start of s.
afterFraction(s, frac) ==
    IF charAt(s, 0) = "." THEN substrFrom(s, 1 + Len(frac)) ELSE s

\* parseFloat of a sign, the digits whole at the start of what follows it
\* and the rest.
parseFloatRest(neg, whole, rest) ==
    IF whole = "" /\ fractionPart(rest) = "" THEN FloatNaN
    ELSE FloatOfLiteral(neg, whole, fractionPart(rest),
                        exponentPart(afterFraction(rest, fractionPart(rest))))

\* parseFloat of a sign and what follows it.
parseFloatBody(neg, body) ==
    IF substr(body, 0, 8) = "Infinity" THEN Infinity(neg)
    ELSE parseFloatRest(neg, substr(body, 0, DigitRun(body)),
                        substrFrom(body, DigitRun(body)))

\* parseFloat of a string without white space at its start.
parseFloatTrimmed(t) ==
    parseFloatBody(Len(t) > 0 /\ SubSeq(t, 1, 1) = "-", Unsigned(t))

\* parseFloat(s): leading white space, an optional sign, then Infinity or
\* digits, an optional "." and digits, and an optional exponent.
parseFloat(s) == parseFloatTrimmed(trimStart(s))

\* The digits of a number below 10^n, k of them, as JavaScript prints them.
toStringDigits(digits, k, n) ==
    IF k <= n /\ n <= 21 THEN digits \o PadZero("", n - k)
    ELSE IF 0 < n /\ n <= 21
    THEN SubSeq(digits, 1, n) \o "." \o SubSeq(digits, n + 1, k)
    ELSE IF 0 - 6 < n /\ n <= 0 THEN "0." \o PadZero("", 0 - n) \o digits
    ELSE SubSeq(digits, 1, 1)
             \o (IF k > 1 THEN "." \o SubSeq(digits, 2, k) ELSE "")
             \o (IF n < 1 THEN "e-" \o NatToStr(1 - n) ELSE "e+" \o NatToStr(n - 1))

\* "" + x, x.toString(): Number::toString of ECMAScript for radix 10.
toString(x) ==
    IF x.nan THEN "NaN"
    ELSE IF x.inf THEN (IF x.neg THEN "-Infinity" ELSE "Infinity")
    ELSE IF x.digits = "" THEN "0"
    ELSE (IF x.neg THEN "-" ELSE "")
             \o toStringDigits(x.digits, Len(x.digits), Len(x.digits) + x.exp)

\* Math.round(x * scale) / scale for a double x and a whole scale.
DblRoundTo(x, scale) ==
    DblDiv(DblRound(DblMul(x, DblOfInt(scale))), DblOfInt(scale))

\* The numbers whose arithmetic whole numbers do exactly: up to 9 digits,
\* 6 of them at most after the point, below 10000.
IsShort(x) ==
    ~x.nan /\ ~x.inf /\ Len(x.digits) <= 9 /\ x.exp >= 0 - 6
       /\ Len(x.digits) + x.exp <= 4

\* [ok, val] for the quotient m.q + m.r / den of a number that is negative
\* or not: val the whole number nearest to it, ok where the quotient lies
\* 1/100000 or more off the middle between two whole numbers.
shortRoundOf(neg, m, den) ==
    [ok |-> (IF 2 * m.r >= den THEN 2 * m.r - den ELSE den - 2 * m.r)
                > den \div 50000,
     val |-> (IF neg THEN 0 - 1 ELSE 1) * (m.q + (IF 2 * m.r > den THEN 1 ELSE 0))]

\* Math.round(x * b / c) in whole numbers, for a number x and whole b and
\* c > 0: [ok, val], ok for a short x whose quotient lies off the middle.
\* The doubles of the library's arithmetic (products below 2^31, each
\* rounded in its 16th digit) lie closer than 1/100000 to the quotient and
\* round to the same val.
shortRound(x, b, c) ==
    IF IsShort(x)
    THEN shortRoundOf(x.neg,
                      mulDiv(DigitsVal(x.digits) * Pow10(Max(x.exp, 0)), b,
                             c * Pow10(Max(0 - x.exp, 0))),
                      c * Pow10(Max(0 - x.exp, 0)))
    ELSE [ok |-> FALSE, val |-> 0]

-----------------------------------------------------------------------------
(* src/main.ts: the sentence-cache library.                                *)

Cap == 32
Keep == 28
TimeoutMs == 12000
GoodSnr == 28
MinTotal == 5
MinGood == 3

\* interface Satellite
Satellite(id, elv, az, snr) ==
    [id |-> id, elevation |-> elv, azimuth |-> az, snr |-> snr]

\* satellites.slice(-n): the last n entries.
sliceLast(satellites, n) ==
    SubSeq(satellites, Max(Len(satellites) - n, 0) + 1, Len(satellites))

\* The for loop of parseGSV: the index (from 0) of the first entry with this
\* id, or -1.
findPos(satellites, id) ==
    IF \E i \in 1..Len(satellites) : satellites[i].id = id
    THEN (CHOOSE i \in 1..Len(satellites) :
              /\ satellites[i].id = id
              /\ \A j \in 1..(i - 1) : satellites[j].id # id) - 1
    ELSE -1

\* if (!idRaw || !snrRaw || snrRaw.trim() === "") continue;
slotSkipped(idRaw, snrRaw) == idRaw = "" \/ snrRaw = "" \/ trim(snrRaw) = ""

\* The test with id >= 0 in place of id > 0.
slotAcceptedFromZero(id, snr) == ~id.nan /\ id.val >= 0 /\ snr > 0

\* if (id > 0 && snr > 0)
slotAccepted(id, snr) == GtZero(id) /\ snr > 0

\* The loop body with a known satellite taken out and entered again at the
\* end.
mergeSlotMovesToEnd(satellites, idRaw, elvRaw, azRaw, snrRaw) ==
    IF slotSkipped(idRaw, snrRaw) THEN satellites
    ELSE LET id == parseInt(idRaw)
             elv == OrZero(parseInt(elvRaw))
             az == OrZero(parseInt(azRaw))
             snr == OrZero(parseInt(snrRaw))
         IN IF slotAccepted(id, snr)
            THEN Append(SelectSeq(satellites, LAMBDA e : e.id # id.val),
                        Satellite(id.val, elv, az, snr))
            ELSE satellites

\* One pass of the while loop's body for the slot at parts[idx..idx+3].
mergeSlot(satellites, idRaw, elvRaw, azRaw, snrRaw) ==
    IF slotSkipped(idRaw, snrRaw) THEN satellites
    ELSE LET id == parseInt(idRaw)
             elv == OrZero(parseInt(elvRaw))
             az == OrZero(parseInt(azRaw))
             snr == OrZero(parseInt(snrRaw))
         IN IF slotAccepted(id, snr)
            THEN LET sat == Satellite(id.val, elv, az, snr)
                     pos == findPos(satellites, id.val)
                 IN IF pos >= 0
                    THEN [satellites EXCEPT ![pos + 1] = sat]
                    ELSE Append(satellites, sat)
            ELSE satellites

\* while (idx + 3 < parts.length) { ... }
RECURSIVE gsvLoop(_, _, _)
gsvLoop(parts, idx, satellites) ==
    IF idx + 3 < Len(parts)
    THEN gsvLoop(parts, idx + 4,
                 mergeSlot(satellites, At(parts, idx), At(parts, idx + 1),
                           At(parts, idx + 2), At(parts, idx + 3)))
    ELSE satellites

\* let isBDS = (talker === "BD" || talker === "GB")
isBDS(parts) == substr(At(parts, 0), 1, 2) \in {"BD", "GB"}

\* What `satellites = satellites.slice(-28)` assigns: the local variable
\* `satellites` only.  The module-level array it aliased keeps every entry.
trimmedLocal(satellites) ==
    IF Len(satellites) > Cap THEN sliceLast(satellites, Keep) ELSE satellites

\* The module-level array after parseGSV: the loop pushes into and overwrites
\* the array itself; the trimmed copy is bound to the local and dropped.
afterTrim(satellites) ==
    LET local == trimmedLocal(satellites) IN satellites

\* parseGSV emptying the catalog at the first sentence of a sequence.
parseGSVResetOnFirst(line, gps, bds) ==
    IF Len(line) < 8 THEN [gps |-> gps, bds |-> bds]
    ELSE LET kept(satellites) == IF At(line, 2) = "1" THEN <<>> ELSE satellites
         IN IF isBDS(line)
            THEN [gps |-> gps, bds |-> afterTrim(gsvLoop(line, 4, kept(bds)))]
            ELSE [gps |-> afterTrim(gsvLoop(line, 4, kept(gps))), bds |-> bds]

\* parseGSV(line): the two catalogs after the call.
parseGSV(line, gps, bds) ==
    IF Len(line) < 8 THEN [gps |-> gps, bds |-> bds]
    ELSE IF isBDS(line)
         THEN [gps |-> gps, bds |-> afterTrim(gsvLoop(line, 4, bds))]
         ELSE [gps |-> afterTrim(gsvLoop(line, 4, gps)), bds |-> bds]

\* if (!line || line.length < 8 || line.charAt(0) !== "$") return;
\* if (parts.length < 3) return;
lineRejected(line) ==
    \/ line = EmptyLine
    \/ lineLength(line) < 8
    \/ charAt(At(line, 0), 0) # "$"
    \/ Len(line) < 3

\* let sentence = parts[0].substr(3, 3)
sentenceOf(line) == substr(At(line, 0), 3, 3)

\* The refresh without the test of the sentence type.
refreshesFixAnyType(parts) ==
    \/ Len(parts) > 6 /\ At(parts, 6) \in {"1", "2"}
    \/ Len(parts) > 2 /\ At(parts, 2) = "A"

\* The condition under which readAndParseLine refreshes lastValidFixMs.
refreshesFix(parts) ==
    /\ sentenceOf(parts) \in {"GGA", "RMC"}
    /\ \/ Len(parts) > 6 /\ At(parts, 6) \in {"1", "2"}
       \/ Len(parts) > 2 /\ At(parts, 2) = "A"

\* extractField(sentence, idx)
extractField(sentence, idx) ==
    IF sentence = EmptyLine THEN ""
    ELSE IF idx < Len(sentence) THEN At(sentence, idx) ELSE ""

\* a || b for strings: the empty string is falsy.
OrStr(a, b) == IF a # "" THEN a ELSE b

\* status(): "direct sentence evidence" of the cached GGA, then of the RMC.
evidenceGGA(gga) == extractField(gga, 6) \in {"1", "2", "4"}
evidenceRMC(rmc) == extractField(rmc, 2) = "A"
directEvidence == evidenceGGA(lastGGA) \/ evidenceRMC(lastRMC)

\* status(): the age rule.
tooOld(now, stamp) == now - stamp > TimeoutMs

\* status(): the satellite fallback.
countGood(satellites) ==
    Cardinality({i \in 1..Len(satellites) : satellites[i].snr >= GoodSnr})

\* The satellite fallback with the thresholds 6, 4 and snr >= 30.
qualityOutdoorStricter(gps, bds) ==
    /\ Len(gps) + Len(bds) >= 6
    /\ Cardinality({i \in 1..Len(gps) : gps[i].snr >= 30})
           + Cardinality({i \in 1..Len(bds) : bds[i].snr >= 30}) >= 4

qualityOutdoor(gps, bds) ==
    /\ Len(gps) + Len(bds) >= MinTotal
    /\ countGood(gps) + countGood(bds) >= MinGood

\* status(): the returned string, from the state it is called in.
statusOf(gga, rmc, gps, bds, now, stamp) ==
    IF evidenceGGA(gga) THEN "outdoor"
    ELSE IF evidenceRMC(rmc) THEN "outdoor"
    ELSE IF tooOld(now, stamp) THEN "indoor"
    ELSE IF qualityOutdoor(gps, bds) THEN "outdoor" ELSE "indoor"

status == statusOf(lastGGA, lastRMC, gpsSatellites, bdsSatellites,
                   millis, lastValidFixMs)

\* status() forgetting the time of the last valid fix without evidence.
stampAfterStatusForgets ==
    IF evidenceGGA(lastGGA) \/ evidenceRMC(lastRMC) THEN millis ELSE 0

\* status() recording the time whenever it returns "outdoor".
stampAfterAnyOutdoor == IF status = "outdoor" THEN millis ELSE lastValidFixMs

\* status(): lastValidFixMs after the call.
stampAfterStatus ==
    IF evidenceGGA(lastGGA) \/ evidenceRMC(lastRMC) THEN millis ELSE lastValidFixMs

\* utcTime(), from the cached sentences it reads.
utcTimeOf(gga, rmc) ==
    LET t == OrStr(extractField(gga, 1), extractField(rmc, 1))
    IN IF t = "" \/ Len(t) < 6 THEN ""
       ELSE substr(t, 0, 2) \o ":" \o substr(t, 2, 2) \o ":" \o substr(t, 4, 2)

utcTime == utcTimeOf(lastGGA, lastRMC)

NoFix == "(no fix)"

\* deg + min / 60, negated where minus.
degreesOf(deg, min, minus) ==
    IF minus
    THEN DblNeg(DblAdd(DblOfInt(deg), DblDiv(DblOf(min), DblOfInt(60))))
    ELSE DblAdd(DblOfInt(deg), DblDiv(DblOf(min), DblOfInt(60)))

\* "" + (Math.round(dec * 1000000) / 1000000) for dec = deg + min / 60,
\* negated where minus: micro is Math.round(min * 1000000 / 60) in whole
\* numbers, or not ok, and then the doubles are worked out.
decimalDegreesOf(deg, min, minus, micro) ==
    IF deg.nan THEN "NaN"
    ELSE IF micro.ok
    THEN numberToString((IF minus THEN 0 - 1 ELSE 1)
                            * (deg.val * 1000000 + micro.val), 6)
    ELSE toString(FloatOf(DblRoundTo(degreesOf(deg.val, min, minus), 1000000)))

\* The decimal degrees of a ddmm.mmmm field split after `width` degree
\* digits: deg + min / 60, negated for the given hemisphere, rounded to 6
\* places.
decimalDegrees(raw, width, hemi, negative) ==
    decimalDegreesOf(parseInt(substr(raw, 0, width)),
                     parseFloat(substrFrom(raw, width)),
                     hemi = negative,
                     shortRound(parseFloat(substrFrom(raw, width)), 1000000, 60))

\* latitude(), from what status() returned and the cached sentences.
latitudeOf(st, gga, rmc) ==
    IF st # "outdoor" THEN NoFix
    ELSE LET raw == OrStr(extractField(gga, 2), extractField(rmc, 3))
             ns == OrStr(extractField(gga, 3), extractField(rmc, 4))
         IN IF raw = "" \/ Len(raw) < 4 THEN NoFix
            ELSE decimalDegrees(raw, 2, ns, "S")

latitude == latitudeOf(status, lastGGA, lastRMC)

\* longitude(), from what status() returned and the cached sentences.
longitudeOf(st, gga, rmc) ==
    IF st # "outdoor" THEN NoFix
    ELSE LET raw == OrStr(extractField(gga, 4), extractField(rmc, 5))
             ew == OrStr(extractField(gga, 5), extractField(rmc, 6))
         IN IF raw = "" \/ Len(raw) < 5 THEN NoFix
            ELSE decimalDegrees(raw, 3, ew, "W")

longitude == longitudeOf(status, lastGGA, lastRMC)

\* 1.852, the kilometres of a nautical mile.
KnotKmh == DblOfDecimal(FALSE, "1852", 0 - 3)

\* "" + (Math.round(v * 10) / 10) for v = parseFloat(vtg).
speedOfVtg(v, tenths) ==
    IF tenths.ok THEN numberToString(tenths.val, 1)
    ELSE toString(FloatOf(DblRoundTo(DblOf(v), 10)))

\* "" + (Math.round(v * 10) / 10) for v = parseFloat(rmc) * 1.852.
speedOfRmc(knots, tenths) ==
    IF tenths.ok THEN numberToString(tenths.val, 1)
    ELSE toString(FloatOf(DblRoundTo(DblMul(DblOf(knots), KnotKmh), 10)))

\* "" + Math.round(parseFloat(rmc) * 1.852)
speedOfRmcWhole(knots, whole) ==
    IF whole.ok THEN numberToString(whole.val, 0)
    ELSE toString(FloatOf(DblRound(DblMul(DblOf(knots), KnotKmh))))

\* speedKmh() with the RMC speed rounded to a whole number.
speedKmhOfWhole(st, lastVtg, lastRmc) ==
    IF st # "outdoor" THEN NoFix
    ELSE IF extractField(lastVtg, 7) # ""
    THEN speedOfVtg(parseFloat(extractField(lastVtg, 7)),
                    shortRound(parseFloat(extractField(lastVtg, 7)), 10, 1))
    ELSE IF extractField(lastRmc, 7) # ""
    THEN speedOfRmcWhole(parseFloat(extractField(lastRmc, 7)),
                         shortRound(parseFloat(extractField(lastRmc, 7)), 1852, 1000))
    ELSE NoFix

\* speedKmh(), from what status() returned and the cached sentences.
speedKmhOf(st, lastVtg, lastRmc) ==
    IF st # "outdoor" THEN NoFix
    ELSE IF extractField(lastVtg, 7) # ""
    THEN speedOfVtg(parseFloat(extractField(lastVtg, 7)),
                    shortRound(parseFloat(extractField(lastVtg, 7)), 10, 1))
    ELSE IF extractField(lastRmc, 7) # ""
    THEN speedOfRmc(parseFloat(extractField(lastRmc, 7)),
                    shortRound(parseFloat(extractField(lastRmc, 7)), 1852, 100))
    ELSE NoFix

speedKmh == speedKmhOf(status, lastVTG, lastRMC)

-----------------------------------------------------------------------------
(* src/main.ts: the operations, as steps on the library's variables.       *)

\* Strings hold ASCII only: the degree sign U+00B0 is written "^" and the
\* dash U+2014 of the "no data" answer "~", one character each.
Degree == "^"
NoData == "~"

\* str.padStart(width, " ")
RECURSIVE padStart(_, _)
padStart(str, width) ==
    IF Len(str) >= width THEN str ELSE padStart(" " \o str, width)

\* The entry after satellites[index], the first one after the last.
entryAfter(satellites, index) ==
    satellites[IF index + 2 <= Len(satellites) THEN index + 2 ELSE 1]

\* satellites[index], index counted from 0.
entryAt(satellites, index) == satellites[index + 1]

\* gpsSatelliteCount()
gpsSatelliteCount == Len(gpsSatellites)

\* gpsSatelliteInfo(index)
gpsSatelliteInfo(index) ==
    IF index < 0 \/ index >= Len(gpsSatellites) THEN NoData
    ELSE LET s == entryAt(gpsSatellites, index)
             idStr == "ID" \o padStart(numberToString(s.id, 0), 2)
             elStr == "el:" \o padStart(numberToString(s.elevation, 0), 2)
                          \o Degree
             azStr == "az:" \o padStart(numberToString(s.azimuth, 0), 3)
                          \o Degree
             snrStr == padStart(numberToString(s.snr, 0), 2) \o "dB"
         IN idStr \o "  " \o elStr \o "  " \o azStr \o "  " \o snrStr

\* bdsSatelliteCount()
bdsSatelliteCount == Len(bdsSatellites)

\* bdsSatelliteInfo(index)
bdsSatelliteInfo(index) ==
    IF index < 0 \/ index >= Len(bdsSatellites) THEN NoData
    ELSE LET s == entryAt(bdsSatellites, index)
         IN "ID" \o numberToString(s.id, 0)
                \o " el:" \o numberToString(s.elevation, 0) \o Degree
                \o " az:" \o numberToString(s.azimuth, 0) \o Degree
                \o " " \o numberToString(s.snr, 0) \o "dB"

\* parseGSV() called for GSA sentences too.
callsParseGSVForGsa(sentence) == sentence \in {"GSV", "GSA"}

\* else if (sentence === "GSV") { lastGSV = line; parseGSV(line); }
callsParseGSV(sentence) == sentence = "GSV"

\* if (!isGnssSerial) return;  Past it the call goes on to serial.readLine().
passesPortTest == isGnssSerial

\* The calls of readAndParseLine(), and of log() of part_000, that wait for
\* a line at the same time, each in its own fiber.
MaxWaiting == 1

\* The fibers that run log() of part_001 or start() at the same time.
MaxFibers == 2
Fibers == 1..MaxFibers

\* readAndParseLine() up to serial.readLine(), where the call waits for a
\* line while other fibers run.
callReadAndParseLine ==
    /\ IF passesPortTest
       THEN reading < MaxWaiting /\ reading' = reading + 1
       ELSE reading' = reading
    /\ UNCHANGED mainVars

\* readAndParseLine() from serial.readLine() on, when it returns `line`.
readAndParseLine(line) ==
    /\ reading > 0
    /\ reading' = reading - 1
    /\ IF lineRejected(line)
       THEN UNCHANGED mainVars
       ELSE LET sentence == sentenceOf(line)
                cat == IF callsParseGSV(sentence)
                       THEN parseGSV(line, gpsSatellites, bdsSatellites)
                       ELSE [gps |-> gpsSatellites, bds |-> bdsSatellites]
            IN /\ lastGGA' = IF sentence = "GGA" THEN line ELSE lastGGA
               /\ lastRMC' = IF sentence = "RMC" THEN line ELSE lastRMC
               /\ lastVTG' = IF sentence = "VTG" THEN line ELSE lastVTG
               /\ lastGSA' = IF sentence = "GSA" THEN line ELSE lastGSA
               /\ lastGSV' = IF sentence = "GSV" THEN line ELSE lastGSV
               /\ gpsSatellites' = cat.gps
               /\ bdsSatellites' = cat.bds
               /\ lastValidFixMs' = IF refreshesFix(line) THEN millis ELSE lastValidFixMs
               /\ UNCHANGED isGnssSerial

\* What every call of status() does to the state.
statusCall ==
    /\ lastValidFixMs' = stampAfterStatus
    /\ UNCHANGED <<isGnssSerial, lastGGA, lastRMC, lastVTG, lastGSA, lastGSV,
                   gpsSatellites, bdsSatellites>>

UseGnssSerial ==
    /\ isGnssSerial' = TRUE
    /\ UNCHANGED <<lastGGA, lastRMC, lastVTG, lastGSA, lastGSV, gpsSatellites,
                   bdsSatellites, lastValidFixMs, millis, reading, envVars, logVars, cycleVars, startVars>>

UseUsbSerial ==
    /\ isGnssSerial' = FALSE
    /\ UNCHANGED <<lastGGA, lastRMC, lastVTG, lastGSA, lastGSV, gpsSatellites,
                   bdsSatellites, lastValidFixMs, millis, reading, envVars, logVars, cycleVars, startVars>>

\* A fiber calls readAndParseLine().
CallReadAndParseLine ==
    callReadAndParseLine /\ UNCHANGED <<millis, envVars, logVars, cycleVars, startVars>>

Status == statusCall /\ UNCHANGED <<millis, reading, envVars, logVars, cycleVars, startVars>>

\* latitude(), longitude() and speedKmh() each start with a call of status().
Latitude == statusCall /\ UNCHANGED <<millis, reading, envVars, logVars, cycleVars, startVars>>

Longitude == statusCall /\ UNCHANGED <<millis, reading, envVars, logVars, cycleVars, startVars>>

SpeedKmh == statusCall /\ UNCHANGED <<millis, reading, envVars, logVars, cycleVars, startVars>>

ClearSatellites ==
    /\ gpsSatellites' = <<>>
    /\ bdsSatellites' = <<>>
    /\ UNCHANGED <<isGnssSerial, lastGGA, lastRMC, lastVTG, lastGSA, lastGSV,
                   lastValidFixMs, millis, reading, envVars, logVars, cycleVars, startVars>>

-----------------------------------------------------------------------------
(* The receiver's lines and the clock.                                     *)

\* The clock is followed in steps of TickMs, MaxTicks of them; while whole
\* and cut sentences are read (SpecFrame), MaxFrameTicks of them.
MaxTicks == 2
MaxFrameTicks == 1
TickMs == 12000

\* Time passes between two calls, up to `ticks` times.
tick(ticks) ==
    /\ millis + TickMs <= ticks * TickMs
    /\ millis' = millis + TickMs
    /\ UNCHANGED <<mainVars, reading, envVars, logVars, cycleVars, startVars>>

Tick == tick(MaxTicks)

FrameTick == tick(MaxFrameTicks)

GGA(quality) ==
    <<"$GPGGA", "123519", "4807.038", "N", "01131.000", "E", quality, "08",
      "0.9", "545.4", "M", "46.9", "M", "", "*47">>

RMC(validity) ==
    <<"$GNRMC", "081836", validity, "3751.650", "S", "14507.360", "E", "010.0",
      "360.0", "130998", "011.3", "E*62">>

VTG == <<"$GPVTG", "054.7", "T", "034.4", "M", "005.5", "N", "010.2", "K*48">>

GSA == <<"$GPGSA", "A", "3", "01", "02", "03", "04", "05", "2.5", "1.3", "2.1*39">>

GLL == <<"$GPGLL", "4916.45", "N", "12311.12", "W", "225444", "A", "*1D">>

\* A GSV sentence: talker, number of sentences, sentence number, satellites
\* in view, then the slots (id, elevation, azimuth, snr), four fields each.
RECURSIVE Flatten(_)
Flatten(slots) ==
    IF slots = <<>> THEN <<>> ELSE Head(slots) \o Flatten(Tail(slots))

GSV(talker, total, seq, inView, slots) ==
    <<"$" \o talker \o "GSV", total, seq, inView>> \o Flatten(slots)

\* Four GPS satellites, two of them with a good signal (snr >= 28).
GsvHead ==
    GSV("GP", "2", "1", "05",
        << <<"01", "40", "083", "30">>, <<"02", "17", "308", "28">>,
           <<"03", "07", "344", "27">>, <<"04", "22", "228", "20*75">> >>)

GsvTail == GSV("GP", "2", "2", "05", << <<"05", "10", "100", "20*70">> >>)

\* Two BeiDou satellites, one of them with a good signal.
GsvBds ==
    GSV("BD", "1", "1", "02",
        << <<"01", "50", "120", "35">>, <<"02", "20", "200", "15*7E">> >>)

\* Lines readAndParseLine rejects: too short, no "$", fewer than 3 fields.
Noise == {<<"$GP", "A", "1">>, <<"GPGGA", "1", "2", "3">>, <<"$GPGGA", "1">>}

\* The lines the receiver sends while the fix comes and goes.
Lines ==
    {GGA(q) : q \in {"0", "1", "2", "4"}} \cup {RMC(v) : v \in {"A", "V"}}
        \cup {VTG, GsvHead, GsvTail, GsvBds} \cup Noise

\* A sentence that reports a fix: GGA with fix quality 1, 2 or 4, RMC with
\* validity A.
qualifying(line) ==
    \/ sentenceOf(line) = "GGA" /\ Len(line) > 6 /\ At(line, 6) \in {"1", "2", "4"}
    \/ sentenceOf(line) = "RMC" /\ Len(line) > 2 /\ At(line, 2) = "A"

\* The line is read and passes the checks of readAndParseLine.
accepted(line) == reading > 0 /\ ~lineRejected(line)

ReadAndParseLine ==
    \E line \in Lines :
        /\ readAndParseLine(line)
        /\ lastQualMs' = IF accepted(line) /\ qualifying(line)
                         THEN millis ELSE lastQualMs
        /\ UNCHANGED <<millis, burst, delivered, logRepeats, reads, stream, stampNoCalls, logVars, cycleVars, startVars>>

-----------------------------------------------------------------------------
(* A GSV burst: the receiver reports n satellites, ids 1..n, four to a     *)
(* sentence, in ceil(n / 4) consecutive sentences.  One slot (`weak`, 0    *)
(* for none) has no signal: its snr field is empty or "0".                 *)

MaxBurst == 34
MaxWeakBurst == 6

NoBurst == [talker |-> "", n |-> 0, weak |-> 0, weakSnr |-> "", next |-> 1]

Bursts ==
    {[talker |-> t, n |-> n, weak |-> 0, weakSnr |-> "", next |-> 1] :
         t \in {"GP", "BD"}, n \in 1..MaxBurst}
        \cup {[talker |-> t, n |-> n, weak |-> w, weakSnr |-> z, next |-> 1] :
                  t \in {"GP", "BD"}, n \in 1..MaxWeakBurst,
                  w \in 1..MaxWeakBurst, z \in {"", "0"}}

NumSentences(n) == (n + 3) \div 4

\* What the receiver reports for satellite id.
ElevationOf(id) == (id * 2) % 90
AzimuthOf(id) == id * 9
SnrOf(id) == 20 + (id % 30)

BurstSlot(b, id) ==
    <<PadZero(NatToStr(id), 2), PadZero(NatToStr(ElevationOf(id)), 2),
      PadZero(NatToStr(AzimuthOf(id)), 3),
      IF id = b.weak THEN b.weakSnr ELSE NatToStr(SnrOf(id))>>

\* The checksum follows the last field of the sentence.
WithChecksum(parts) ==
    [parts EXCEPT ![Len(parts)] = parts[Len(parts)] \o "*7A"]

\* Sentence k of the burst.
BurstLine(b, k) ==
    LET first == 4 * (k - 1) + 1
        last == Min(4 * k, b.n)
    IN WithChecksum(
           GSV(b.talker, NatToStr(NumSentences(b.n)), NatToStr(k),
               PadZero(NatToStr(b.n), 2),
               [i \in 1..(last - first + 1) |-> BurstSlot(b, first + i - 1)]))

BurstDone == burst.n > 0 /\ burst.next > NumSentences(burst.n)

\* readAndParseLine() reads the next sentence of the burst.
ReadBurstLine ==
    /\ burst.n > 0
    /\ burst.next <= NumSentences(burst.n)
    /\ readAndParseLine(BurstLine(burst, burst.next))
    /\ burst' = [burst EXCEPT !.next = @ + 1]
    /\ UNCHANGED <<millis, lastQualMs, delivered, logRepeats, reads, stream, stampNoCalls, logVars,
                   cycleVars, startVars>>

InitMain ==
    /\ isGnssSerial = FALSE
    /\ reading = 0
    /\ lastGGA = EmptyLine
    /\ lastRMC = EmptyLine
    /\ lastVTG = EmptyLine
    /\ lastGSA = EmptyLine
    /\ lastGSV = EmptyLine
    /\ gpsSatellites = <<>>
    /\ bdsSatellites = <<>>
    /\ lastValidFixMs = 0
    /\ millis = 0

InitLog ==
    /\ _moduleTxPin = "null"
    /\ _moduleRxPin = "null"
    /\ _lastRawLine = EmptyLine
    /\ logReading = 0
    /\ _fixed = FALSE
    /\ _utc = ""
    /\ _lat = FloatZero
    /\ _ns = ""
    /\ _lon = FloatZero
    /\ _ew = ""
    /\ _speedKmh = FloatZero
    /\ _gpsSatellites = <<>>
    /\ _beidouSatellites = <<>>

InitCycle ==
    /\ _cycleLines = <<>>
    /\ _lastRawCycle = ""
    /\ lineCount = [f \in Fibers |-> 0]
    /\ seenGGA = [f \in Fibers |-> FALSE]
    /\ logPc = [f \in Fibers |-> "idle"]
    /\ sent = 0
    /\ cycles = 0

InitEnv ==
    /\ burst = NoBurst
    /\ lastQualMs = 0
    /\ delivered = EmptyLine
    /\ logRepeats = 0
    /\ reads = [f \in Fibers |-> 0]
    /\ stream = "none"
    /\ stampNoCalls = 0

InitStart ==
    /\ starting = [v \in {"part_001", "part_002"} |-> 0]
    /\ handler = "none"
    /\ _satellites = <<>>

Init == InitMain /\ InitLog /\ InitCycle /\ InitStart /\ InitEnv

Next ==
    \/ UseGnssSerial
    \/ UseUsbSerial
    \/ CallReadAndParseLine
    \/ ReadAndParseLine
    \/ Status
    \/ Latitude
    \/ Longitude
    \/ SpeedKmh
    \/ ClearSatellites
    \/ Tick

Spec == Init /\ [][Next]_vars

\* One burst, read from the start into empty catalogs.
InitBurst ==
    /\ InitMain
    /\ InitLog
    /\ InitCycle
    /\ InitStart
    /\ burst \in {b \in Bursts : b.weak <= b.n}
    /\ lastQualMs = 0
    /\ delivered = EmptyLine
    /\ logRepeats = 0
    /\ reads = [f \in Fibers |-> 0]
    /\ stream = "none"
    /\ stampNoCalls = 0

NextBurst ==
    \/ UseGnssSerial
    \/ UseUsbSerial
    \/ CallReadAndParseLine
    \/ ReadBurstLine
    \/ Status
    \/ Latitude
    \/ Longitude
    \/ SpeedKmh

SpecBurst == InitBurst /\ [][NextBurst]_vars

-----------------------------------------------------------------------------
(* GSV sentences of every talker, with empty, zero and malformed slots.    *)

Talkers == {"GP", "BD", "GB", "GN", "GL"}

\* Four slots: complete; no elevation and azimuth; no snr; id 0.
GsvMixed(talker) ==
    GSV(talker, "1", "1", "03",
        << <<"01", "40", "083", "30">>, <<"02", "", "", "28">>,
           <<"03", "07", "344", "">>, <<"0", "10", "100", "25*7C">> >>)

\* Satellite 1 again with new values, then a negative, an empty and a
\* non-numeric id.
GsvAgain ==
    GSV("GP", "2", "2", "05",
        << <<"01", "45", "090", "33">>, <<"-4", "10", "100", "25">>,
           <<"", "10", "100", "25">>, <<"xx", "1", "1", "9*7A">> >>)

\* One slot whose snr is missing before the checksum, one complete slot.
GsvNoSnr ==
    GSV("GP", "2", "2", "06",
        << <<"05", "12", "200", "0">>, <<"06", "61", "270", "*71">> >>)

GsvLast == GSV("GP", "2", "2", "05", << <<"04", "22", "228", "27*75">> >>)

\* Fewer than 8 fields.
GsvShort == <<"$GPGSV", "1", "1", "01", "09", "10", "100">>

\* Two BeiDou satellites under the GB talker.
GsvBeidou ==
    GSV("GB", "1", "1", "02",
        << <<"02", "33", "150", "40">>, <<"07", "05", "010", "22*70">> >>)

\* Satellite 4 twice in one sentence.
GsvTwice ==
    GSV("GP", "2", "2", "05",
        << <<"04", "10", "100", "20">>, <<"04", "11", "101", "21*7B">> >>)

GsvLines ==
    {GsvMixed(t) : t \in Talkers}
        \cup {GsvAgain, GsvNoSnr, GsvLast, GsvShort, GsvBeidou, GsvTwice}

ReadGsvLine ==
    /\ \E line \in GsvLines : readAndParseLine(line)
    /\ UNCHANGED <<millis, envVars, logVars, cycleVars, startVars>>

NextGsv ==
    \/ UseGnssSerial
    \/ UseUsbSerial
    \/ CallReadAndParseLine
    \/ ReadGsvLine
    \/ Status
    \/ Latitude
    \/ Longitude
    \/ SpeedKmh
    \/ ClearSatellites

SpecGsv == Init /\ [][NextGsv]_vars

-----------------------------------------------------------------------------
(* src/unnamed/part_000:286-502: the RMC-decoder library.                  *)

\* class Satellite
LogSatellite(type, prn, elevation, azimuth, snr) ==
    [type |-> type, prn |-> prn, elevation |-> elevation, azimuth |-> azimuth,
     snr |-> snr]

\* s || "0" for a string s.
OrZeroStr(s) == IF s # "" THEN s ELSE "0"

\* if (prn > 0)
prnAccepted(prn) == GtZero(prn)

\* The while loop of parseGSV(fields, system): every slot with prn > 0 is
\* pushed.
RECURSIVE logGsvLoop(_, _, _, _)
logGsvLoop(fields, i, system, target) ==
    IF i + 3 < Len(fields)
    THEN LET prn == parseInt(OrZeroStr(At(fields, i)))
             elev == parseInt(OrZeroStr(At(fields, i + 1)))
             az == parseInt(OrZeroStr(At(fields, i + 2)))
             snr == parseInt(OrZeroStr(At(fields, i + 3)))
         IN logGsvLoop(fields, i + 4, system,
                       IF prnAccepted(prn)
                       THEN Append(target, LogSatellite(system, prn.val, elev, az, snr))
                       ELSE target)
    ELSE target

\* if (msgNum === 1) target.length = 0
afterReset(fields, target) ==
    IF parseInt(OrZeroStr(At(fields, 2))) = Num(1) THEN <<>> ELSE target

\* parseGSV(fields, system): the target catalog after the call.
logParseGSV(fields, system, target) ==
    logGsvLoop(fields, 4, system, afterReset(fields, target))

\* The last three characters of the last five of field 0.
sentenceType(fields) ==
    LET sentenceId == substrFrom(At(fields, 0), Len(At(fields, 0)) - 5)
    IN substrFrom(sentenceId, Len(sentenceId) - 3)

\* The constellation of a GSV sentence, or "null".
systemOf(fields) ==
    IF includes(At(fields, 0), "GP") THEN "GPS"
    ELSE IF includes(At(fields, 0), "BD") \/ includes(At(fields, 0), "GB")
    THEN "Beidou"
    ELSE "null"

\* Math.round(knots * factor) for a factor of thousandths: whole is the
\* result in whole numbers, or not ok, and then the doubles are worked out.
roundTimesOf(knots, thousandths, whole) ==
    IF whole.ok THEN FloatOfInt(whole.val)
    ELSE FloatOf(DblRound(DblMul(DblOf(knots),
                                 DblDiv(DblOfInt(thousandths), DblOfInt(1000)))))

\* Knots taken to statute miles per hour instead of km/h.
knotsToMph(knots) == roundTimesOf(knots, 1151, shortRound(knots, 1151, 1000))

\* The speed added to the stored one instead of replacing it.
knotsToKmhAccumulated(knots) ==
    IF IsShort(_speedKmh) /\ _speedKmh.exp >= 0 /\ shortRound(knots, 1852, 1000).ok
    THEN FloatOfInt((IF _speedKmh.neg THEN 0 - 1 ELSE 1)
                        * DigitsVal(_speedKmh.digits) * Pow10(_speedKmh.exp)
                        + shortRound(knots, 1852, 1000).val)
    ELSE FloatOf(DblAdd(DblOf(_speedKmh),
                        DblOf(roundTimesOf(knots, 1852,
                                           shortRound(knots, 1852, 1000)))))

\* Math.round(knots * 1.852)
knotsToKmh(knots) == roundTimesOf(knots, 1852, shortRound(knots, 1852, 1000))

\* The variables parseSingleLine works on, as one value.
FixNow ==
    [fixed |-> _fixed, utc |-> _utc, lat |-> _lat, ns |-> _ns, lon |-> _lon,
     ew |-> _ew, speedKmh |-> _speedKmh, gps |-> _gpsSatellites,
     beidou |-> _beidouSatellites]

\* The RMC branch of parseSingleLine(line): the variables after it.
decodedRmc(fields, st) ==
    IF sentenceType(fields) = "RMC" /\ Len(fields) >= 10
    THEN IF At(fields, 2) = "A"
         THEN [st EXCEPT !.fixed = TRUE,
                         !.utc = substr(At(fields, 1), 0, 6),
                         !.lat = parseFloat(OrZeroStr(At(fields, 3))),
                         !.ns = At(fields, 4),
                         !.lon = parseFloat(OrZeroStr(At(fields, 5))),
                         !.ew = At(fields, 6),
                         !.speedKmh = knotsToKmh(parseFloat(OrZeroStr(At(fields, 7))))]
         ELSE [st EXCEPT !.fixed = FALSE]
    ELSE st

\* The GSV branch of parseSingleLine(line): the variables after it.
decodedGsv(fields, st) ==
    IF sentenceType(fields) = "GSV" /\ Len(fields) >= 8
    THEN IF systemOf(fields) = "GPS"
         THEN [st EXCEPT !.gps = logParseGSV(fields, "GPS", st.gps)]
         ELSE IF systemOf(fields) = "Beidou"
         THEN [st EXCEPT !.beidou = logParseGSV(fields, "Beidou", st.beidou)]
         ELSE st
    ELSE st

\* parseSingleLine(line): the variables after the call.
decoded(fields, st) ==
    IF Len(fields) < 4 THEN st ELSE decodedGsv(fields, decodedRmc(fields, st))

\* The variables take the values of st.
assignFix(st) ==
    /\ _fixed' = st.fixed
    /\ _utc' = st.utc
    /\ _lat' = st.lat
    /\ _ns' = st.ns
    /\ _lon' = st.lon
    /\ _ew' = st.ew
    /\ _speedKmh' = st.speedKmh
    /\ _gpsSatellites' = st.gps
    /\ _beidouSatellites' = st.beidou

\* parseSingleLine(line)
parseSingleLine(fields) == assignFix(decoded(fields, FixNow))

\* serial.readUntil("\n").trim(), on the fields of the line.
trimLine(line) ==
    IF Len(line) = 1 THEN <<trim(line[1])>>
    ELSE [line EXCEPT ![1] = trimStart(@), ![Len(line)] = trimEnd(@)]

SerialPins == {"P0", "P1"}

\* What a pin variable holds: a pin, or "null" for null and every other
\* value that `!pin` takes for missing.
PinValues == SerialPins \cup {"null"}

\* initializePins(txPin, rxPin), with any two values.
InitializePins ==
    /\ \E txPin \in PinValues :
           \E rxPin \in PinValues :
               /\ _moduleTxPin' = txPin
               /\ _moduleRxPin' = rxPin
    /\ UNCHANGED <<mainVars, millis, reading, envVars, cycleVars, startVars, _lastRawLine,
                   logReading, _fixed, _utc, _lat, _ns, _lon, _ew, _speedKmh,
                   _gpsSatellites, _beidouSatellites>>

\* if (!_moduleTxPin || !_moduleRxPin) { ...; return }
passesPinTest == _moduleTxPin # "null" /\ _moduleRxPin # "null"

\* log() up to serial.readUntil("\n"), where the call waits for a line
\* while other fibers run.
callLog ==
    /\ IF passesPinTest
       THEN logReading < MaxWaiting /\ logReading' = logReading + 1
       ELSE logReading' = logReading
    /\ UNCHANGED <<_moduleTxPin, _moduleRxPin, _lastRawLine, _fixed, _utc, _lat,
                   _ns, _lon, _ew, _speedKmh, _gpsSatellites, _beidouSatellites>>

\* log() from serial.readUntil("\n") on, when the module sends `raw`.
log(raw) ==
    /\ logReading > 0
    /\ logReading' = logReading - 1
    /\ _lastRawLine' = trimLine(raw)
    /\ IF lineLength(trimLine(raw)) >= 8
       THEN parseSingleLine(trimLine(raw))
       ELSE UNCHANGED <<_fixed, _utc, _lat, _ns, _lon, _ew, _speedKmh,
                        _gpsSatellites, _beidouSatellites>>
    /\ UNCHANGED <<_moduleTxPin, _moduleRxPin>>

\* status(), utcTime() and speed() of the RMC-decoder library.
logStatus == IF _fixed THEN "Outdoor" ELSE "Indoor"
logUtcTime == IF _fixed THEN _utc ELSE "undefined"
logSpeed ==
    IF ~_fixed THEN "undefined"
    ELSE toString(_speedKmh)

\* The lines of the module, each ending in "\r" before the line feed.
Cr(parts) == [parts EXCEPT ![Len(parts)] = parts[Len(parts)] \o "\r"]

LogRMC(validity) ==
    Cr(<<"$GPRMC", "123519", validity, "4807.038", "N", "01131.000", "E",
         "022.4", "084.4", "230394", "003.1", "W*6A">>)

\* A burst of two GSV sentences, the second one alone when the first is lost.
LogGsv(talker, seq) ==
    Cr(GSV(talker, "2", seq, "05",
           IF seq = "1"
           THEN << <<"01", "40", "083", "30">>, <<"02", "17", "308", "">>,
                   <<"0", "", "", "">>, <<"04", "22", "228", "27*75">> >>
           ELSE << <<"05", "10", "100", "20">>, <<"06", "", "", "*70">> >>))

\* A line of three fields, long enough for log() to hand it to the parser.
LogShortRmc == Cr(<<"$GPRMC", "081836", "A">>)

LogLines ==
    {LogRMC(v) : v \in {"A", "V"}}
        \cup {Cr(RMC("A")), Cr(GGA("1")), <<"$GP\r">>, LogShortRmc}
        \cup {LogGsv("GP", q) : q \in {"1", "2"}}
        \cup {LogGsv(t, "1") : t \in {"BD", "GN"}}

\* The catalogs of this library grow without limit; the sentences sent are
\* those that keep them within MaxLogSats entries.
MaxLogSats == 6

\* The times in a row the module is followed sending the same line.
MaxRepeats == 2

\* A fiber calls log().
CallLog ==
    /\ callLog
    /\ UNCHANGED <<mainVars, millis, reading, envVars, cycleVars, startVars>>

\* A waiting log() call reads a line.
Log ==
    /\ \E raw \in LogLines :
           /\ log(raw)
           /\ logRepeats' = IF trimLine(raw) = _lastRawLine
                            THEN Min(logRepeats + 1, MaxRepeats)
                            ELSE 1
    /\ Len(_gpsSatellites') <= MaxLogSats
    /\ Len(_beidouSatellites') <= MaxLogSats
    /\ UNCHANGED <<mainVars, millis, burst, lastQualMs, delivered, reads, stream,
                   stampNoCalls, reading, cycleVars, startVars>>

NextLog ==
    \/ InitializePins
    \/ CallLog
    \/ Log

SpecLog == Init /\ [][NextLog]_vars

-----------------------------------------------------------------------------
(* The earlier copy of the sentence-cache library,                         *)
(* src/unnamed/part_000:1-285.  It has the variables of src/main.ts but    *)
(* lastGSA and lastGSV; useGnssSerial(), useUsbSerial(), parseGSV(),       *)
(* clearSatellites() and readAndParseLine() up to the sentence types are   *)
(* those of src/main.ts, line for line.  status() and the accessors that   *)
(* call it write no variable.                                              *)

EarlierTimeoutMs == 8000
EarlierGoodSnr == 30
EarlierMinTotal == 6
EarlierMinGood == 4

\* The condition under which readAndParseLine refreshes lastValidFixMs.
earlierRefreshesFix(parts) ==
    /\ sentenceOf(parts) \in {"GGA", "RMC"}
    /\ \/ Len(parts) > 6 /\ At(parts, 6) = "1"
       \/ Len(parts) > 2 /\ At(parts, 2) = "A"

\* readAndParseLine() from serial.readLine() on, when it returns `line`.
earlierReadAndParseLine(line) ==
    /\ reading > 0
    /\ reading' = reading - 1
    /\ IF lineRejected(line)
       THEN UNCHANGED mainVars
       ELSE LET sentence == sentenceOf(line)
                cat == IF sentence = "GSV"
                       THEN parseGSV(line, gpsSatellites, bdsSatellites)
                       ELSE [gps |-> gpsSatellites, bds |-> bdsSatellites]
            IN /\ lastGGA' = IF sentence = "GGA" THEN line ELSE lastGGA
               /\ lastRMC' = IF sentence = "RMC" THEN line ELSE lastRMC
               /\ lastVTG' = IF sentence = "VTG" THEN line ELSE lastVTG
               /\ gpsSatellites' = cat.gps
               /\ bdsSatellites' = cat.bds
               /\ lastValidFixMs' = IF earlierRefreshesFix(line)
                                    THEN millis ELSE lastValidFixMs
               /\ UNCHANGED <<isGnssSerial, lastGSA, lastGSV>>

\* status(): the satellite fallback.
earlierQualityOutdoor(gps, bds) ==
    /\ Len(gps) + Len(bds) >= EarlierMinTotal
    /\ Cardinality({i \in 1..Len(gps) : gps[i].snr >= EarlierGoodSnr})
           + Cardinality({i \in 1..Len(bds) : bds[i].snr >= EarlierGoodSnr})
           >= EarlierMinGood

\* status(): the returned string, from the state it is called in.  The age
\* of the last valid fix is tested first, then the cached GGA (fix quality
\* 1 or 2), then the cached RMC, then the catalogs.
earlierStatusOf(gga, rmc, gps, bds, now, stamp) ==
    IF now - stamp > EarlierTimeoutMs THEN "indoor"
    ELSE IF extractField(gga, 6) \in {"1", "2"} THEN "outdoor"
    ELSE IF extractField(rmc, 2) = "A" THEN "outdoor"
    ELSE IF earlierQualityOutdoor(gps, bds) THEN "outdoor" ELSE "indoor"

earlierStatus ==
    earlierStatusOf(lastGGA, lastRMC, gpsSatellites, bdsSatellites, millis,
                    lastValidFixMs)

\* A waiting readAndParseLine() call reads a line of the receiver.
EarlierReadAndParseLine ==
    /\ \E line \in Lines : earlierReadAndParseLine(line)
    /\ UNCHANGED <<millis, envVars, logVars, cycleVars, startVars>>

NextEarlier ==
    \/ UseGnssSerial
    \/ UseUsbSerial
    \/ CallReadAndParseLine
    \/ EarlierReadAndParseLine
    \/ ClearSatellites
    \/ Tick

SpecEarlier == Init /\ [][NextEarlier]_vars

-----------------------------------------------------------------------------
(* Properties of the sentence-cache library under Spec, and of its earlier *)
(* copy under SpecEarlier.                                                 *)

NoFixReported ==
    /\ status = "indoor"
    /\ utcTime = ""
    /\ latitude = NoFix
    /\ longitude = NoFix
    /\ speedKmh = NoFix

\* C2: after an RMC sentence whose validity field is not "A" has been
\* processed, the status is indoor and time, latitude, longitude and speed
\* are at their no-fix value, whatever the state was before.
C2_RmcLossResets ==
    [][\A line \in Lines :
           (/\ accepted(line)
            /\ sentenceOf(line) = "RMC"
            /\ At(line, 2) # "A"
            /\ readAndParseLine(line)
            /\ millis' = millis) => NoFixReported']_vars

\* C3: when more than the timeout has passed since the last
\* qualifying sentence was received, status() returns indoor, whatever is
\* cached and whatever the catalogs hold.
C3_SilenceMeansIndoor ==
    millis - lastQualMs > TimeoutMs => status = "indoor"

\* The fix quality of the cached GGA and the validity of the cached RMC, read
\* from the cached fields.
CachedQuality == IF Len(lastGGA) > 6 THEN lastGGA[7] ELSE ""
CachedValidity == IF Len(lastRMC) > 2 THEN lastRMC[3] ELSE ""
CachedEvidence == CachedQuality \in {"1", "2", "4"} \/ CachedValidity = "A"

\* status() of src/main.ts is outdoor whenever the cached GGA has fix
\* quality 1, 2 or 4 or the cached RMC has validity A, whatever the age of
\* the last valid fix and whatever the catalogs hold; without such evidence
\* a last valid fix older than the timeout gives indoor.
MainStrictPriority ==
    /\ CachedEvidence => status = "outdoor"
    /\ (~CachedEvidence /\ millis - lastValidFixMs > TimeoutMs) =>
           status = "indoor"

\* C4: status(), of src/main.ts and of the earlier copy, is outdoor whenever
\* the cached GGA has fix quality 1, 2 or 4 or the cached RMC has validity
\* A, whatever the age of the last valid fix and whatever the catalogs
\* hold; without such evidence the age rule comes next: a last valid fix
\* older than the timeout gives indoor, whatever the catalogs hold.
C4_StrictPriority ==
    /\ CachedEvidence => (status = "outdoor" /\ earlierStatus = "outdoor")
    /\ (~CachedEvidence /\ millis - lastValidFixMs > TimeoutMs) =>
           (status = "indoor" /\ earlierStatus = "indoor")

\* Evidence in the cache, the last valid fix older than the timeout, both
\* catalogs empty, and status() of src/main.ts outdoor.
EvidenceBeatsAge ==
    /\ CachedEvidence
    /\ millis - lastValidFixMs > TimeoutMs
    /\ gpsSatellites = <<>> /\ bdsSatellites = <<>>
    /\ status = "outdoor"

\* The earlier copy: a GGA with fix quality 1 is cached, the last valid fix
\* is older than its timeout, and status() is indoor.
EarlierAgeBeatsEvidence ==
    /\ extractField(lastGGA, 6) = "1"
    /\ millis - lastValidFixMs > EarlierTimeoutMs
    /\ earlierStatus = "indoor"

\* The earlier copy: a GGA with fix quality 4 is cached, read at this very
\* time, and status() is indoor.
EarlierQuality4Indoor ==
    /\ extractField(lastGGA, 6) = "4"
    /\ extractField(lastRMC, 2) # "A"
    /\ millis = lastValidFixMs
    /\ earlierStatus = "indoor"

\* The age rule ahead of the satellite fallback: no evidence cached, the last
\* valid fix older than the timeout, catalogs that pass the fallback, indoor.
AgeRuleBeatsQuality ==
    /\ ~CachedEvidence
    /\ millis - lastValidFixMs > TimeoutMs
    /\ qualityOutdoor(gpsSatellites, bdsSatellites)
    /\ status = "indoor"

\* C6: whenever status() reports indoor, utcTime(), latitude(), longitude()
\* and speedKmh() all return their not-fixed value.
C6_IndoorMeansSentinels ==
    status = "indoor" =>
        /\ utcTime = ""
        /\ latitude = NoFix
        /\ longitude = NoFix
        /\ speedKmh = NoFix

-----------------------------------------------------------------------------
(* Properties of parseGSV under SpecBurst.                                 *)

BurstCatalog == IF burst.talker = "BD" THEN bdsSatellites ELSE gpsSatellites

\* C1: each catalog holds at most 32 entries in every reachable state.
C1_CatalogWithinCap ==
    /\ Len(gpsSatellites) <= Cap
    /\ Len(bdsSatellites) <= Cap

\* C5: a burst of n distinct satellites read into an empty catalog leaves
\* exactly n entries, entry i with the id, elevation, azimuth and snr of
\* slot i, a slot with snr 0 or an empty snr included (snr 0).
C5_BurstGivesAll ==
    BurstDone =>
        BurstCatalog =
            [i \in 1..burst.n |->
                 Satellite(i, ElevationOf(i), AzimuthOf(i),
                           IF i = burst.weak THEN 0 ELSE SnrOf(i))]

-----------------------------------------------------------------------------
(* Properties of parseGSV under SpecGsv.                                   *)

\* The slots of a GSV sentence: slot k is fields 4k .. 4k + 3.
NumSlots(line) == IF Len(line) < 8 THEN 0 ELSE (Len(line) - 4) \div 4
SlotField(line, k, j) == line[4 * k + j + 1]

\* The slot's id is a number above 0.
SlotIdPositive(line, k) == GtZero(parseInt(SlotField(line, k, 0)))

\* The constellation a GSV sentence is for, by its field 0.
IsGpsSentence(line) == includes(line[1], "GP")
IsBdsSentence(line) ==
    ~IsGpsSentence(line) /\ (includes(line[1], "BD") \/ includes(line[1], "GB"))

NoDuplicateIds(satellites) ==
    \A i, j \in 1..Len(satellites) :
        satellites[i].id = satellites[j].id => i = j

\* No catalog of the sentence-cache library holds an id twice.
MainCatalogsUnique ==
    NoDuplicateIds(gpsSatellites) /\ NoDuplicateIds(bdsSatellites)

\* The entry a slot must leave in its catalog: missing sub-fields are 0.
SlotEntry(line, k) ==
    Satellite(parseInt(SlotField(line, k, 0)).val,
              OrZero(parseInt(SlotField(line, k, 1))),
              OrZero(parseInt(SlotField(line, k, 2))),
              OrZero(parseInt(SlotField(line, k, 3))))

HasEntry(satellites, sat) == \E i \in 1..Len(satellites) : satellites[i] = sat

\* A sub-field is missing when it is empty or holds only the checksum.
SubFieldMissing(raw) == trim(raw) = "" \/ charAt(raw, 0) = "*"

SlotIncomplete(line, k) ==
    \E j \in 1..3 : SubFieldMissing(SlotField(line, k, j))

\* C8: a slot with id > 0 whose elevation, azimuth or snr is missing is
\* stored in the catalog of the sentence's constellation, the missing
\* sub-field as 0.
C8_MissingFieldsStoredAsZero ==
    [][\A line \in GsvLines :
           (accepted(line) /\ readAndParseLine(line)) =>
               \A k \in 1..NumSlots(line) :
                   (SlotIdPositive(line, k) /\ SlotIncomplete(line, k)) =>
                       /\ IsGpsSentence(line) =>
                              HasEntry(gpsSatellites', SlotEntry(line, k))
                       /\ IsBdsSentence(line) =>
                              HasEntry(bdsSatellites', SlotEntry(line, k))]_vars

\* C9: every entry of every catalog has id > 0.
C9_IdsPositive ==
    /\ \A i \in 1..Len(gpsSatellites) : gpsSatellites[i].id > 0
    /\ \A i \in 1..Len(bdsSatellites) : bdsSatellites[i].id > 0

\* C9's case: the last GSV sentence read had a slot with id 0 and a signal,
\* and its other slots are in the catalog.
C9_Witness ==
    /\ lastGSV = GsvMixed("GP")
    /\ Len(gpsSatellites) = 2
    /\ parseInt(SlotField(lastGSV, 4, 0)) = Num(0)
    /\ GtZero(parseInt(SlotField(lastGSV, 4, 3)))

\* C10: a GSV sentence changes the GPS catalog only if field 0 contains
\* "GP", the BeiDou catalog only if field 0 contains "BD" or "GB", and no
\* catalog when field 0 contains none of them.
C10_TalkerSelectsCatalog ==
    [][\A line \in GsvLines :
           (accepted(line) /\ readAndParseLine(line)) =>
               /\ gpsSatellites' # gpsSatellites => IsGpsSentence(line)
               /\ bdsSatellites' # bdsSatellites => IsBdsSentence(line)]_vars

-----------------------------------------------------------------------------
(* Properties of the RMC-decoder library under SpecLog.                    *)

NoDuplicatePrns(satellites) ==
    \A i, j \in 1..Len(satellites) :
        satellites[i].prn = satellites[j].prn => i = j

\* C7: no catalog holds two entries with the same satellite id, after any
\* sequence of GSV sentences, repeated bursts and bursts whose first
\* sentence was lost included.
C7_UniqueIds ==
    NoDuplicatePrns(_gpsSatellites) /\ NoDuplicatePrns(_beidouSatellites)

\* Every entry of the RMC-decoder library's catalogs has prn > 0.
LogPrnsPositive ==
    /\ \A i \in 1..Len(_gpsSatellites) : _gpsSatellites[i].prn > 0
    /\ \A i \in 1..Len(_beidouSatellites) : _beidouSatellites[i].prn > 0


\* The RMC-decoder library after an RMC sentence of at least 10 fields whose
\* validity is not "A": status(), utcTime() and speed() report no fix.
LogRmcLossResets ==
    [][\A raw \in LogLines :
           (/\ sentenceType(trimLine(raw)) = "RMC"
            /\ Len(raw) >= 10
            /\ raw[3] # "A"
            /\ log(raw)) =>
               (logStatus = "Indoor" /\ logUtcTime = "undefined"
                    /\ logSpeed = "undefined")']_vars

\* The fix state and the catalogs of the RMC-decoder library.
LogFixState == <<_fixed, _utc, _lat, _ns, _lon, _ew, _speedKmh>>
LogCatalogs == <<_gpsSatellites, _beidouSatellites>>

\* The RMC-decoder library discards a line of fewer than 4 fields: its fix
\* state and its catalogs stay as they were.
LogShortLineDiscarded ==
    [][\A raw \in LogLines :
           (Len(raw) < 4 /\ log(raw)) =>
               (LogFixState' = LogFixState /\ LogCatalogs' = LogCatalogs)]_vars

\* In the RMC-decoder library a sentence other than GSV leaves both
\* catalogs as they were.
LogOnlyGsvChangesCatalogs ==
    [][\A raw \in LogLines :
           (sentenceType(trimLine(raw)) # "GSV" /\ log(raw)) =>
               LogCatalogs' = LogCatalogs]_vars

\* C17: in the RMC-decoder library, decoding the RMC sentence that was
\* decoded just before leaves the fix flag, the time, the position, the
\* hemispheres and the speed as the first decode left them.
C17_RedecodeChangesNothing ==
    [][\A raw \in LogLines :
           (/\ sentenceType(trimLine(raw)) = "RMC"
            /\ Len(raw) >= 10
            /\ _lastRawLine = trimLine(raw)
            /\ log(raw)) => LogFixState' = LogFixState]_vars

\* A valid RMC sentence has been decoded twice in a row, the speed rounded
\* from 22.4 knots.
C17_Witness ==
    /\ logRepeats = 2
    /\ _lastRawLine = trimLine(LogRMC("A"))
    /\ _fixed
    /\ _utc = "123519"
    /\ _speedKmh = FloatOfInt(41)

\* An RMC sentence without a fix has been decoded twice in a row after a fix.
RedecodedLoss ==
    /\ logRepeats = 2
    /\ _lastRawLine = trimLine(LogRMC("V"))
    /\ ~_fixed
    /\ _utc = "123519"

\* The fix state parseSingleLine stores from a valid RMC sentence.
DecodedFrom(fields) ==
    <<TRUE, substr(At(fields, 1), 0, 6), parseFloat(OrZeroStr(At(fields, 3))),
      At(fields, 4), parseFloat(OrZeroStr(At(fields, 5))), At(fields, 6),
      knotsToKmh(parseFloat(OrZeroStr(At(fields, 7))))>>

\* In the RMC-decoder library a fix state with the flag set is, in all its
\* fields, the decode of one valid RMC sentence.
LogFixFromOneRmc ==
    _fixed =>
        \E raw \in LogLines :
            /\ sentenceType(trimLine(raw)) = "RMC"
            /\ Len(raw) >= 10
            /\ raw[3] = "A"
            /\ LogFixState = DecodedFrom(trimLine(raw))

\* The three-field line has been read by log() after a fix was decoded.
LogShortLineRead == _lastRawLine = trimLine(LogShortRmc) /\ _fixed

-----------------------------------------------------------------------------
(* The satellite fallback of status() under Spec.                          *)

\* The entries of both catalogs, and those with snr >= 28.
TotalEntries == Len(gpsSatellites) + Len(bdsSatellites)
StrongEntries ==
    Cardinality({i \in 1..Len(gpsSatellites) : gpsSatellites[i].snr >= 28})
        + Cardinality({i \in 1..Len(bdsSatellites) : bdsSatellites[i].snr >= 28})

NoEvidenceAndRecent ==
    ~CachedEvidence /\ millis - lastValidFixMs <= 12000

\* C11: without direct evidence and with the last valid fix no older than
\* the timeout, status() is outdoor exactly when both catalogs together hold
\* at least 5 entries and at least 3 of them have snr >= 28.
C11_QualityFallback ==
    NoEvidenceAndRecent =>
        (status = "outdoor" <=> (TotalEntries >= 5 /\ StrongEntries >= 3))

\* C11's case: no evidence, a recent fix, 5 entries or more of which exactly
\* 3 are strong, and status() outdoor.
C11_Witness ==
    /\ NoEvidenceAndRecent
    /\ TotalEntries >= 5
    /\ StrongEntries = 3
    /\ status = "outdoor"

\* The other side: 5 entries or more, fewer than 3 strong ones, indoor.
C11_WeakCatalogIndoor ==
    /\ NoEvidenceAndRecent
    /\ TotalEntries >= 5
    /\ StrongEntries < 3
    /\ status = "indoor"

-----------------------------------------------------------------------------
(* src/main.ts fed with short, truncated and unknown sentences among the   *)
(* good ones.                                                              *)

\* Lines of 3 and of 2 fields, each at least 8 characters long.
ShortRmc == <<"$GPRMC", "081836", "A">>
ShortGga == <<"$GPGGA", "123519", "4807.038">>
ShortGsv == <<"$GPGSV", "3">>

\* An RMC sentence cut off after its sixth field.
CutRmc == SubSeq(RMC("A"), 1, 6)

\* A sentence type the library does not know, with "A" in fields 1 and 2.
APB ==
    <<"$GPAPB", "A", "A", "0.10", "R", "N", "V", "V", "011", "M", "DEST", "011",
      "M", "011", "M*3C">>

FrameLines ==
    {ShortRmc, ShortGga, ShortGsv, CutRmc, GsvShort, APB}
        \cup {GGA("1"), RMC("A"), VTG, GSA, GsvHead}

ReadFrameLine ==
    \E line \in FrameLines :
        /\ readAndParseLine(line)
        /\ delivered' = line
        /\ UNCHANGED <<millis, burst, lastQualMs, logRepeats, reads, stream, stampNoCalls, logVars,
                       cycleVars, startVars>>

NextFrame ==
    \/ UseGnssSerial
    \/ UseUsbSerial
    \/ CallReadAndParseLine
    \/ ReadFrameLine
    \/ Status
    \/ Latitude
    \/ Longitude
    \/ SpeedKmh
    \/ ClearSatellites
    \/ FrameTick

SpecFrame == Init /\ [][NextFrame]_vars

\* What the accessors report, at the current time.
Reported == <<status, utcTime, latitude, longitude, speedKmh>>

\* What the accessors report after the step.
StatusAfter ==
    statusOf(lastGGA', lastRMC', gpsSatellites', bdsSatellites', millis',
             lastValidFixMs')
ReportedAfter ==
    <<StatusAfter, utcTimeOf(lastGGA', lastRMC'),
      latitudeOf(StatusAfter, lastGGA', lastRMC'),
      longitudeOf(StatusAfter, lastGGA', lastRMC'),
      speedKmhOf(StatusAfter, lastVTG', lastRMC')>>

CachedSentences == <<lastGGA, lastRMC, lastVTG, lastGSA, lastGSV>>

Catalogs == <<gpsSatellites, bdsSatellites>>

\* C12: a line of fewer than 4 fields leaves the cached sentences, the
\* time of the last valid fix and both catalogs as they were.
C12_ShortLineDiscarded ==
    [][\A line \in FrameLines :
           (Len(line) < 4 /\ readAndParseLine(line)) =>
               /\ CachedSentences' = CachedSentences
               /\ lastValidFixMs' = lastValidFixMs
               /\ Catalogs' = Catalogs]_vars

\* C13: an RMC sentence of fewer than 10 fields leaves the time of the last
\* valid fix and everything the accessors report as it was, and a GSV
\* sentence of fewer than 8 fields leaves both catalogs as they were.
C13_TruncatedSentenceChangesNothing ==
    [][\A line \in FrameLines :
           (readAndParseLine(line) /\ millis' = millis) =>
               /\ (sentenceOf(line) = "RMC" /\ Len(line) < 10) =>
                      /\ lastValidFixMs' = lastValidFixMs
                      /\ ReportedAfter = Reported
               /\ (sentenceOf(line) = "GSV" /\ Len(line) < 8) =>
                      Catalogs' = Catalogs]_vars

\* C14: a sentence of type RMC, GGA, VTG or GSA leaves both catalogs as they
\* were: the same entries in the same order.
C14_OnlyGsvChangesCatalogs ==
    [][\A line \in FrameLines :
           (/\ sentenceOf(line) \in {"RMC", "GGA", "VTG", "GSA"}
            /\ readAndParseLine(line)) => Catalogs' = Catalogs]_vars

\* C14's case: a GSA sentence was the last line read (it is cached), after
\* GGA, RMC and VTG sentences, and the GPS catalog holds its entries.
C14_Witness ==
    /\ delivered = GSA /\ lastGSA = GSA
    /\ lastGGA = GGA("1") /\ lastRMC = RMC("A") /\ lastVTG = VTG
    /\ Len(gpsSatellites) = 4

UnknownType(line) ==
    /\ charAt(At(line, 0), 0) = "$"
    /\ sentenceOf(line) \notin {"RMC", "GGA", "VTG", "GSA", "GSV"}

\* C15: reading a line starting with "$" whose sentence type is none of RMC,
\* GGA, VTG, GSA, GSV changes no cached sentence, no catalog and not the time
\* of the last valid fix, and every accessor reports what it reported before.
C15_UnknownTypeIgnored ==
    [][\A line \in FrameLines :
           (/\ UnknownType(line)
            /\ delivered' = line
            /\ readAndParseLine(line)
            /\ millis' = millis) =>
               /\ CachedSentences' = CachedSentences
               /\ Catalogs' = Catalogs
               /\ lastValidFixMs' = lastValidFixMs
               /\ ReportedAfter = Reported]_vars

\* C15's case: the APB sentence was the last line read, later than the last
\* valid fix, with sentences cached and satellites in the catalog.
C15_Witness ==
    /\ delivered = APB
    /\ isGnssSerial
    /\ millis > lastValidFixMs
    /\ lastRMC = RMC("A")
    /\ lastGGA = GGA("1")
    /\ Len(gpsSatellites) = 4

\* The cached RMC sentence reports a fix.
RmcAccepted == lastRMC # EmptyLine /\ At(lastRMC, 2) = "A"

\* What the accessors would report from the cached RMC sentence alone.
ReportedFromRmc ==
    <<utcTimeOf(EmptyLine, lastRMC), latitudeOf("outdoor", EmptyLine, lastRMC),
      longitudeOf("outdoor", EmptyLine, lastRMC),
      speedKmhOf("outdoor", EmptyLine, lastRMC)>>

\* C19: while the last RMC sentence read reports a fix, the time, the
\* latitude, the longitude and the speed the accessors report are all taken
\* from that sentence, never from another one.
C19_FixFromLastRmc ==
    (RmcAccepted /\ status = "outdoor") =>
        <<utcTime, latitude, longitude, speedKmh>> = ReportedFromRmc

\* The indexes the accessors are asked for run from -2 to MaxIndex.
MaxIndex == 8

Indexes == (0 - 2)..MaxIndex

\* The numbers written in a string, in the order they appear.
RECURSIVE NumbersIn(_)
NumbersIn(str) ==
    IF str = "" THEN <<>>
    ELSE IF IsDigit(charAt(str, 0))
    THEN <<DigitsVal(substr(str, 0, DigitRun(str)))>>
             \o NumbersIn(substrFrom(str, DigitRun(str)))
    ELSE NumbersIn(substrFrom(str, 1))

\* The answer `info` is the "no data" answer for an index outside
\* 0..count-1 and shows the id, elevation, azimuth and snr of the entry at
\* that position of the catalog otherwise.
InfoMatches(info, satellites, count, index) ==
    IF index < 0 \/ index >= count
    THEN info = NoData
    ELSE /\ info # NoData
         /\ NumbersIn(info) =
                <<satellites[index + 1].id, satellites[index + 1].elevation,
                  satellites[index + 1].azimuth, satellites[index + 1].snr>>

\* C18: for both constellations and every index, the satellite-info accessor
\* answers "no data" when the index is below 0 or not below the satellite
\* count, and describes the entry stored at that position otherwise.
C18_InfoBoundsChecked ==
    \A index \in Indexes :
        /\ InfoMatches(gpsSatelliteInfo(index), gpsSatellites,
                       gpsSatelliteCount, index)
        /\ InfoMatches(bdsSatelliteInfo(index), bdsSatellites,
                       bdsSatelliteCount, index)

\* Both catalogs hold entries; the accessors describe an entry with one-digit
\* values, the last entry, and answer "no data" just past the end and
\* below 0.
C18_Witness ==
    /\ gpsSatelliteCount = 3
    /\ bdsSatelliteCount = 2
    /\ gpsSatelliteInfo(0) = "ID 4  el:22^  az:228^  27dB"
    /\ gpsSatelliteInfo(2) = "ID 2  el: 0^  az:  0^  28dB"
    /\ gpsSatelliteInfo(3) = NoData
    /\ gpsSatelliteInfo(0 - 1) = NoData
    /\ bdsSatelliteInfo(1) = "ID7 el:5^ az:10^ 22dB"
    /\ bdsSatelliteInfo(2) = NoData

\* In the sentence-cache library, reading again the RMC sentence that is
\* cached leaves the cache and what the accessors report as they were.
RereadRmcChangesNothing ==
    [][\A line \in FrameLines :
           (/\ sentenceOf(line) = "RMC"
            /\ lastRMC = line
            /\ readAndParseLine(line)
            /\ millis' = millis) =>
               (CachedSentences' = CachedSentences /\ ReportedAfter = Reported)]_vars

\* The cached RMC sentence has been read after the clock moved on.
RereadRmcLater ==
    delivered = RMC("A") /\ lastRMC = RMC("A") /\ 0 < lastValidFixMs

-----------------------------------------------------------------------------
(* log() of src/unnamed/part_001: the capture of one cycle of sentences,   *)
(* one step for every wait in serial.readUntil("\n").                      *)

\* let maxLines = 25
maxLines == 25

\* The lines of one stream followed in the model.
MaxReads == 27

\* The calls of log() followed.
MaxCycles == 2

\* What the module may send while log() listens: a GGA every third line,
\* no GGA at all, one GGA and no second one, every other line cut short,
\* and empty lines only.
StreamKinds == {"steady", "noGGA", "oneGGA", "noisy", "silent"}

\* The k-th line (from 0) of a stream, as serial.readUntil("\n") returns it.
StreamLine(kind, k) ==
    CASE kind = "steady" ->
             IF k % 3 = 0 THEN Cr(GGA("1"))
             ELSE IF k % 3 = 1 THEN LogRMC("A") ELSE LogGsv("GP", "1")
      [] kind = "noGGA" -> LogRMC("V")
      [] kind = "oneGGA" -> IF k = 0 THEN Cr(GGA("1")) ELSE LogRMC("A")
      [] kind = "noisy" -> IF k % 2 = 0 THEN <<"$GP\r">> ELSE LogRMC("A")
      [] OTHER -> <<"\r">>

\* line.includes(t), on the fields of the line; t holds no comma.
lineIncludes(line, t) == \E i \in 1..Len(line) : includes(line[i], t)

\* fields.join(",")
RECURSIVE joinFields(_)
joinFields(line) ==
    IF Len(line) = 1 THEN line[1]
    ELSE line[1] \o "," \o joinFields(Tail(line))

\* _cycleLines.join("\n")
RECURSIVE joinLines(_)
joinLines(lines) ==
    IF lines = <<>> THEN ""
    ELSE IF Len(lines) = 1 THEN joinFields(lines[1])
    ELSE joinFields(lines[1]) \o "\n" \o joinLines(Tail(lines))

\* The fiber a new call of log() runs in: every idle one does the same,
\* the first is taken.
FreeFiber(f) == logPc[f] = "idle" /\ \A g \in 1..(f - 1) : logPc[g] # "idle"

\* No call of log() is under way.
NoCapture == \A f \in Fibers : logPc[f] = "idle"

\* log() up to the first serial.readUntil("\n") of its capture loop, where
\* the call waits while other fibers run.
LogCycle ==
    /\ IF ~passesPinTest
       THEN UNCHANGED <<cycleVars, reads, stream>>
       ELSE \E f \in Fibers :
                /\ FreeFiber(f)
                /\ cycles < MaxCycles
                /\ cycles' = cycles + 1
                /\ IF cycles = 0
                   THEN \E kind \in StreamKinds : stream' = kind
                   ELSE stream' = stream
                /\ sent' = sent
                /\ _cycleLines' = <<>>
                /\ lineCount' = [lineCount EXCEPT ![f] = 0]
                /\ seenGGA' = [seenGGA EXCEPT ![f] = FALSE]
                /\ reads' = [reads EXCEPT ![f] = 0]
                /\ logPc' = [logPc EXCEPT ![f] = "capture"]
                /\ UNCHANGED _lastRawCycle
    /\ UNCHANGED <<mainVars, millis, burst, lastQualMs, delivered, logRepeats,
                   stampNoCalls, reading, logVars, startVars>>

\* if (line.length < 6) continue
shortLine(line) == lineLength(line) < 6

\* line.includes("$GNGGA") || line.includes("$GPGGA")
isGGALine(line) == lineIncludes(line, "$GNGGA") \/ lineIncludes(line, "$GPGGA")

\* if (seenGGA) { _cycleLines.pop(); break }
closesCycle(f, line) == ~shortLine(line) /\ isGGALine(line) /\ seenGGA[f]

\* lineCount++
countAfter(f, line) == IF shortLine(line) THEN lineCount[f] ELSE lineCount[f] + 1

\* _cycleLines.push(line), taken back by the pop at the second GGA.
cycleAfter(f, line) ==
    IF shortLine(line) \/ closesCycle(f, line) THEN _cycleLines
    ELSE Append(_cycleLines, line)

\* The loop is left by the break or by its condition lineCount < maxLines.
leavesLoop(f, line) == closesCycle(f, line) \/ countAfter(f, line) >= maxLines

\* for (let line of _cycleLines) if (line.length >= 8) parseSingleLine(line)
RECURSIVE decodedCycle(_, _, _)
decodedCycle(lines, i, st) ==
    IF i > Len(lines) THEN st
    ELSE decodedCycle(lines, i + 1,
                      IF lineLength(lines[i]) >= 8 THEN decoded(lines[i], st)
                      ELSE st)

\* One pass of the capture loop of the call of fiber f, from the return of
\* serial.readUntil("\n") with `line` to the next wait; on leaving the loop
\* the cycle is joined and parsed, and log() returns.
captureLine(f, line) ==
    /\ logPc[f] = "capture"
    /\ lineCount' = [lineCount EXCEPT ![f] = countAfter(f, line)]
    /\ _cycleLines' = cycleAfter(f, line)
    /\ seenGGA' = [seenGGA EXCEPT ![f] = @ \/ (~shortLine(line) /\ isGGALine(line))]
    /\ IF leavesLoop(f, line)
       THEN /\ _lastRawCycle' = joinLines(cycleAfter(f, line))
            /\ logPc' = [logPc EXCEPT ![f] = "idle"]
            /\ assignFix(decodedCycle(cycleAfter(f, line), 1, FixNow))
       ELSE UNCHANGED <<_lastRawCycle, logPc, _fixed, _utc, _lat, _ns, _lon, _ew,
                        _speedKmh, _gpsSatellites, _beidouSatellites>>
    /\ UNCHANGED <<_moduleTxPin, _moduleRxPin, _lastRawLine, logReading>>

\* A waiting log() call reads the next line of the stream.
CaptureLine ==
    /\ sent < MaxReads
    /\ \E f \in Fibers :
           /\ captureLine(f, trimLine(StreamLine(stream, sent)))
           /\ reads' = [reads EXCEPT ![f] = @ + 1]
    /\ sent' = sent + 1
    /\ UNCHANGED <<mainVars, millis, burst, lastQualMs, delivered, logRepeats,
                   stream, stampNoCalls, reading, cycles, startVars>>

NextCapture ==
    \/ InitializePins
    \/ LogCycle
    \/ CaptureLine

SpecCapture == Init /\ [][NextCapture]_vars

\* No call captures more than maxLines lines.
CaptureKeepsAtMostMaxLines == \A f \in Fibers : lineCount[f] <= maxLines

\* The loop was left after maxLines captured lines, no second GGA seen.
CaptureLeftByCount ==
    NoCapture /\ lineCount[1] = maxLines /\ Len(_cycleLines) = maxLines

\* The loop was left at the second GGA, which is not kept.
CaptureLeftBySecondGGA ==
    NoCapture /\ seenGGA[1] /\ Len(_cycleLines) = 3 /\ reads[1] = 4

\* Two calls under way pushed more than maxLines lines into the one array.
CaptureSharedOverMaxLines == Len(_cycleLines) > maxLines

\* C16: the capture loop of log() ends after at most maxLines = 25 line
\* reads, whatever the module sends.
C16_CaptureReadsBounded == \A f \in Fibers : reads[f] <= maxLines

-----------------------------------------------------------------------------
(* start() of src/unnamed/part_001:154-208 and of src/unnamed/part_002:    *)
(* 72-113: the port is redirected, one line is read and dropped, and a     *)
(* handler is registered that decodes every line received from then on.    *)

\* The libraries that have a start().
StartVersions == {"part_001", "part_002"}

\* start() up to serial.readUntil("\n"), where the call waits for the line
\* it drops while other fibers run.
start(v) ==
    /\ starting[v] < MaxFibers
    /\ starting' = [starting EXCEPT ![v] = @ + 1]
    /\ UNCHANGED <<handler, _satellites>>

\* start() from the return of serial.readUntil("\n") on:
\* serial.onDataReceived("\n", ...), which replaces a handler registered
\* before.
startRegisters(v) ==
    /\ starting[v] > 0
    /\ starting' = [starting EXCEPT ![v] = @ - 1]
    /\ handler' = v
    /\ UNCHANGED _satellites

\* The while loop of parseGSV(fields, system) of part_001:211-239: a slot
\* with an empty id or with prn <= 0 is passed over.  At the first other
\* slot new Satellite(...) (line 234) throws: the class of part_001:9-42
\* declares type, elevation and azimuth as constructor properties and again
\* as getters without setters, so the constructor's assignment fails.
\* Nothing is pushed and the handler ends there.
RECURSIVE startGsvLoop(_, _, _, _)
startGsvLoop(fields, i, system, targetArray) ==
    IF i + 3 < Len(fields)
    THEN IF At(fields, i) # "" /\ prnAccepted(parseInt(At(fields, i)))
         THEN targetArray
         ELSE startGsvLoop(fields, i + 4, system, targetArray)
    ELSE targetArray

\* parseGSV(fields, system) of part_001:211-239: the target catalog after
\* the call, emptied first when msgNum === 1.
startParseGSV(fields, system, targetArray) ==
    startGsvLoop(fields, 4, system,
                 IF parseInt(At(fields, 2)) = Num(1) THEN <<>> ELSE targetArray)

\* The GSV branch of the handler of part_001:177-207.
startGsv(fields, st) ==
    IF sentenceType(fields) = "GSV" /\ Len(fields) >= 8
    THEN IF systemOf(fields) = "GPS"
         THEN [st EXCEPT !.gps = startParseGSV(fields, "GPS", st.gps)]
         ELSE IF systemOf(fields) = "Beidou"
         THEN [st EXCEPT !.beidou = startParseGSV(fields, "Beidou", st.beidou)]
         ELSE st
    ELSE st

\* The handler of part_001:177-207 on a line: the variables after it.  Its
\* RMC branch is that of parseSingleLine.
handled(line, st) ==
    IF lineLength(line) < 10 \/ Len(line) < 4 THEN st
    ELSE startGsv(line, decodedRmc(line, st))

\* The RMC branch of the handler of part_002:81-112: latitude, longitude
\* and the hemispheres are taken as they are.
satellitesRmc(fields, st) ==
    IF includes(At(fields, 0), "RMC") /\ Len(fields) >= 10
    THEN IF At(fields, 2) = "A"
         THEN [st EXCEPT !.fixed = TRUE,
                         !.utc = substr(At(fields, 1), 0, 6),
                         !.lat = parseFloat(At(fields, 3)),
                         !.ns = At(fields, 4),
                         !.lon = parseFloat(At(fields, 5)),
                         !.ew = At(fields, 6),
                         !.speedKmh = knotsToKmh(parseFloat(OrZeroStr(At(fields, 7))))]
         ELSE [st EXCEPT !.fixed = FALSE]
    ELSE st

\* _satellites.filter(s => s.type !== type)
RECURSIVE otherTypes(_, _)
otherTypes(sats, type) ==
    IF sats = <<>> THEN <<>>
    ELSE IF Head(sats).type # type THEN <<Head(sats)>> \o otherTypes(Tail(sats), type)
    ELSE otherTypes(Tail(sats), type)

\* The while loop of parseGSV(fields, type) of part_002:115-134.
RECURSIVE satellitesLoop(_, _, _, _)
satellitesLoop(fields, idx, type, sats) ==
    IF idx + 3 < Len(fields)
    THEN satellitesLoop(fields, idx + 4, type,
                        IF prnAccepted(parseInt(At(fields, idx)))
                        THEN Append(sats,
                                    LogSatellite(type, parseInt(At(fields, idx)).val,
                                                 parseInt(At(fields, idx + 1)),
                                                 parseInt(At(fields, idx + 2)),
                                                 parseInt(OrZeroStr(At(fields, idx + 3)))))
                        ELSE sats)
    ELSE sats

\* parseGSV(fields, type) of part_002:115-134: _satellites after the call.
satellitesParseGSV(fields, type, sats) ==
    satellitesLoop(fields, 4, type, otherTypes(sats, type))

\* if (fields[0].includes("GPGSV") && fields.length >= 7) parseGSV(fields, "GPS")
satellitesGps(fields, sats) ==
    IF includes(At(fields, 0), "GPGSV") /\ Len(fields) >= 7
    THEN satellitesParseGSV(fields, "GPS", sats)
    ELSE sats

\* if (fields[0].includes("BDGSV") || fields[0].includes("GBGSV")) parseGSV(fields, "Beidou")
satellitesBeidou(fields, sats) ==
    IF includes(At(fields, 0), "BDGSV") \/ includes(At(fields, 0), "GBGSV")
    THEN satellitesParseGSV(fields, "Beidou", sats)
    ELSE sats

\* The handler of part_002:81-112 on a line: _satellites after it.
satellitesHandled(line, sats) ==
    IF lineLength(line) < 10 THEN sats
    ELSE satellitesBeidou(line, satellitesGps(line, sats))

\* The registered handler runs on the line `raw` the module sends.
dataReceived(raw) ==
    /\ handler # "none"
    /\ IF handler = "part_001"
       THEN /\ assignFix(handled(trimLine(raw), FixNow))
            /\ _satellites' = _satellites
       ELSE /\ assignFix(IF lineLength(trimLine(raw)) < 10 THEN FixNow
                         ELSE satellitesRmc(trimLine(raw), FixNow))
            /\ _satellites' = satellitesHandled(trimLine(raw), _satellites)
    /\ UNCHANGED <<starting, handler, _moduleTxPin, _moduleRxPin, _lastRawLine,
                   logReading>>

\* An RMC sentence with a fix and no position, and a GSV sentence with a
\* slot that has an id and nothing else.
StartBareRmc ==
    Cr(<<"$GPRMC", "123519", "A", "", "", "", "", "", "", "230394", "", "W*6A">>)
StartBareGsv ==
    Cr(<<"$BDGSV", "1", "1", "01", "07", "", "", "*55">>)

StartLines ==
    {LogRMC(v) : v \in {"A", "V"}}
        \cup {StartBareRmc, StartBareGsv, <<"$GP\r">>, LogShortRmc}
        \cup {LogGsv("GP", q) : q \in {"1", "2"}}

\* A fiber calls start().
Start ==
    /\ \E v \in StartVersions : start(v)
    /\ UNCHANGED <<mainVars, millis, reading, envVars, logVars, cycleVars>>

\* A waiting start() call reads the line it drops and registers its handler.
StartRegisters ==
    /\ \E v \in StartVersions : startRegisters(v)
    /\ UNCHANGED <<mainVars, millis, reading, envVars, logVars, cycleVars>>

\* The module sends a line to the registered handler.
DataReceived ==
    /\ \E raw \in StartLines : dataReceived(raw)
    /\ UNCHANGED <<mainVars, millis, reading, envVars, cycleVars>>

NextStart ==
    \/ Start
    \/ StartRegisters
    \/ DataReceived

SpecStart == Init /\ [][NextStart]_vars

\* The handler of part_002 stored a satellite whose elevation is no number.
StartStoredBareSlot ==
    /\ handler = "part_002"
    /\ Len(_satellites) = 1
    /\ _satellites[1].prn = 7
    /\ _satellites[1].elevation.nan

-----------------------------------------------------------------------------
(* The same sentences given to both libraries: the sentence-cache library  *)
(* of src/main.ts and the RMC-decoder library of src/unnamed/part_000.     *)

\* The RMC sentence of the end-to-end example.
TestRmc ==
    <<"$GPRMC", "123519", "A", "4807.038", "N", "01131.000", "E", "022.4",
      "084.4", "230394", "003.1", "W*6A">>

\* The example sentence with another speed over ground, in knots.
RmcAt(knots) == [TestRmc EXCEPT ![8] = knots]

\* The speeds the receiver reports besides 22.4 and 10.0 knots.  12.5 knots
\* are 23.15 km/h, halfway between two values of one decimal.
BothKnots == {"000.5", "012.5"}

BothLines ==
    {TestRmc, RMC("A"), VTG} \cup {RmcAt(k) : k \in BothKnots}

\* A waiting readAndParseLine() call reads a line of the receiver.
ReadBothLine ==
    /\ \E line \in BothLines : readAndParseLine(line)
    /\ UNCHANGED <<millis, envVars, logVars, cycleVars, startVars>>

\* A waiting log() call reads a line; the module ends it with "\r\n".
LogBothLine ==
    /\ \E line \in BothLines : log(Cr(line))
    /\ UNCHANGED <<mainVars, millis, reading, envVars, cycleVars, startVars>>

\* Each library reads on its own: a line goes to the call that waits for
\* it.  The sentences are followed at one time of the clock.
NextBoth ==
    \/ UseGnssSerial
    \/ UseUsbSerial
    \/ CallReadAndParseLine
    \/ ReadBothLine
    \/ Status
    \/ Latitude
    \/ Longitude
    \/ SpeedKmh
    \/ ClearSatellites
    \/ InitializePins
    \/ CallLog
    \/ LogBothLine

SpecBoth == Init /\ [][NextBoth]_vars

\* The sentence-cache library has processed no sentence yet, and it reads
\* the example sentence.
MainFreshFeed ==
    /\ lastRMC' = TestRmc
    /\ CachedSentences = <<EmptyLine, EmptyLine, EmptyLine, EmptyLine, EmptyLine>>
    /\ Catalogs = <<<<>>, <<>>>>
    /\ readAndParseLine(TestRmc)

\* The RMC-decoder library has processed no sentence yet, and it reads the
\* example sentence.
LogFreshFeed ==
    /\ _lastRawLine' = TestRmc
    /\ _lastRawLine = EmptyLine
    /\ LogFixState = <<FALSE, "", FloatZero, "", FloatZero, "", FloatZero>>
    /\ LogCatalogs = <<<<>>, <<>>>>
    /\ log(Cr(TestRmc))

\* speed() of the RMC-decoder library after the step.
logSpeedAfter ==
    IF ~_fixed' THEN "undefined"
    ELSE toString(_speedKmh')

\* C20: the example RMC sentence given to the fresh state sets the fix
\* (status outdoor) with the time 12:35:19 of the sentence. The RMC-decoder
\* library stores utc = "123519" and reports the speed 41 km/h, rounded to
\* an integer; the sentence-cache library reports the time "12:35:19" and
\* the speed 41.5 km/h, rounded to one decimal.
C20_EndToEnd ==
    [][/\ LogFreshFeed =>
              /\ _fixed'
              /\ _utc' = "123519"
              /\ logSpeedAfter = "41"
       /\ MainFreshFeed =>
              /\ StatusAfter = "outdoor"
              /\ utcTimeOf(lastGGA', lastRMC') = "12:35:19"
              /\ speedKmhOf(StatusAfter, lastVTG', lastRMC') = "41.5"]_vars

\* The example sentence is the only one each library has read.
C20_Witness ==
    /\ CachedSentences = <<EmptyLine, TestRmc, EmptyLine, EmptyLine, EmptyLine>>
    /\ status = "outdoor"
    /\ utcTime = "12:35:19"
    /\ speedKmh = "41.5"
    /\ _lastRawLine = TestRmc
    /\ _fixed
    /\ _utc = "123519"
    /\ logSpeed = "41"

\* C20 as stated for both libraries: the example sentence given to the fresh
\* state sets the fix, the time 123519 and the reported speed 41 km/h.
C20_SpeedIs41 ==
    [][/\ LogFreshFeed =>
              /\ _fixed'
              /\ _utc' = "123519"
              /\ logSpeedAfter = "41"
       /\ MainFreshFeed =>
              /\ StatusAfter = "outdoor"
              /\ NumbersIn(utcTimeOf(lastGGA', lastRMC')) = <<12, 35, 19>>
              /\ speedKmhOf(StatusAfter, lastVTG', lastRMC') = "41"]_vars

-----------------------------------------------------------------------------
(* The speed of a valid RMC sentence in both libraries.                    *)

ValidRmc(line) == sentenceOf(line) = "RMC" /\ At(line, 2) = "A"

\* speedKmh() past the test of the cached VTG (src/main.ts:240-246): the
\* speed it takes from the cached RMC.
speedKmhOfRmc(st, lastRmc) == speedKmhOf(st, EmptyLine, lastRmc)

\* The knots of field 7, written with one decimal, in tenths of a knot.
KnotsTenths(line) ==
    LET f == At(line, 7)
    IN 10 * DigitsVal(substr(f, 0, Len(f) - 2)) + DigitVal(charAt(f, Len(f) - 1))

\* knots * 1.852 in km/h, rounded half up to one decimal and to a whole
\* number, as text.
KmhOneDecimal(tenths) == numberToString((tenths * 1852 + 500) \div 1000, 1)
KmhWhole(tenths) == numberToString((tenths * 1852 + 5000) \div 10000, 0)

\* C21: the speed of a valid RMC sentence is its knots times 1.852, rounded
\* with one precision for every sentence: to one decimal place in the
\* sentence-cache library (10.0 knots give 18.5 km/h), to a whole number in
\* the RMC-decoder library (10.0 knots give 19 km/h).  In every state: when
\* the RMC the sentence-cache library read last is valid, the speed
\* speedKmh() takes from it is the one-decimal value; when the line log()
\* read last is a valid RMC, speed() is the whole-number value.
C21_KnotsToKmh ==
    /\ ValidRmc(lastRMC) =>
           speedKmhOfRmc(status, lastRMC) = KmhOneDecimal(KnotsTenths(lastRMC))
    /\ ValidRmc(_lastRawLine) =>
           logSpeed = KmhWhole(KnotsTenths(_lastRawLine))

\* The RMC sentence with 10.0 knots is the last one each library has read,
\* and no VTG sentence is cached: both report its speed.
C21_Witness ==
    /\ lastRMC = RMC("A")
    /\ lastVTG = EmptyLine
    /\ speedKmh = "18.5"
    /\ _lastRawLine = RMC("A")
    /\ _utc = "081836"
    /\ logSpeed = "19"

\* The sentence with 12.5 knots (23.15 km/h) is the last one each library
\* has read.
BothHalfwaySpeed ==
    /\ lastRMC = RmcAt("012.5")
    /\ lastVTG = EmptyLine
    /\ speedKmh = "23.2"
    /\ _lastRawLine = RmcAt("012.5")
    /\ logSpeed = "23"

\* One library has read the example sentence, the other one no sentence.
BothOneLibraryRead ==
    /\ lastRMC = TestRmc
    /\ _lastRawLine = EmptyLine

\* With a VTG sentence cached speedKmh() reports the speed of the VTG, the
\* RMC read after it.
BothVtgReported ==
    /\ lastRMC = RMC("A")
    /\ lastVTG = VTG
    /\ speedKmh = "10.2"
    /\ speedKmhOfRmc(status, lastRMC) = "18.5"

\* C21 as stated for both libraries: the speed of a valid RMC sentence is
\* its knots times 1.852 rounded to one decimal place.
C21_OneDecimalEverywhere ==
    /\ ValidRmc(lastRMC) =>
           speedKmhOfRmc(status, lastRMC) = KmhOneDecimal(KnotsTenths(lastRMC))
    /\ ValidRmc(_lastRawLine) =>
           logSpeed = KmhOneDecimal(KnotsTenths(_lastRawLine))

-----------------------------------------------------------------------------
(* The decimal latitude after a valid RMC sentence.                        *)

\* degrees + minutes / 60 of a latitude field ddmm.mmm, negated for the
\* hemisphere S, in millionths of a degree rounded half away from zero,
\* written as a decimal number.
DecimalLatitude(field, hemi) ==
    LET deg == DigitsVal(substr(field, 0, 2))
        minThousandths == 1000 * DigitsVal(substr(field, 2, 2))
                              + DigitsVal(substr(field, 5, 3))
        micro == (2 * (deg * 3000000 + minThousandths * 50) + 3) \div 6
    IN numberToString(IF hemi = "S" THEN 0 - micro ELSE micro, 6)

\* The step reads the valid RMC sentence `line`.
ReadsValidRmc(line) ==
    /\ sentenceOf(line) = "RMC"
    /\ At(line, 2) = "A"
    /\ accepted(line)
    /\ readAndParseLine(line)

\* C22: after a valid RMC sentence is read, whatever was read before it,
\* latitude() reports degrees + minutes / 60 of that sentence's latitude
\* field, negated for S, rounded to 6 decimal places.
C22_LatitudeOfLastRmc ==
    [][\A line \in Lines :
           ReadsValidRmc(line) =>
               latitudeOf(StatusAfter, lastGGA', lastRMC')
                   = DecimalLatitude(At(line, 3), At(line, 4))]_vars

\* With no GGA sentence cached the latitude reported after a valid RMC
\* sentence is that of the sentence.
LatitudeFromRmcAlone ==
    [][\A line \in Lines :
           (lastGGA = EmptyLine /\ ReadsValidRmc(line)) =>
               latitudeOf(StatusAfter, lastGGA', lastRMC')
                   = DecimalLatitude(At(line, 3), At(line, 4))]_vars

\* A valid RMC sentence alone is cached and latitude() reports its field
\* 3751.650,S as -37.860833.
RmcAloneLatitude ==
    /\ lastGGA = EmptyLine
    /\ lastRMC = RMC("A")
    /\ latitude = "-37.860833"
    /\ DecimalLatitude("4807.038", "N") = "48.1173"

-----------------------------------------------------------------------------
(* Entries stay in the catalogs of the sentence-cache library.             *)

\* The ids of a catalog.
Ids(satellites) == {satellites[i].id : i \in 1..Len(satellites)}

\* Every id of the catalog is still in it after the step, and the catalog
\* is no shorter.
Stays(before, after) ==
    Ids(before) \subseteq Ids(after) /\ Len(before) <= Len(after)

\* C23: no GSV sentence empties a catalog: every entry of a catalog is still
\* in it after any sentence is read, also after a sentence with sequence
\* number 1 and after one that does not report that satellite.  Entries
\* leave only by clearSatellites().
C23_EntriesStay ==
    [][\A line \in GsvLines :
           readAndParseLine(line) =>
               /\ Stays(gpsSatellites, gpsSatellites')
               /\ Stays(bdsSatellites, bdsSatellites')]_vars

\* Satellite 4 was entered first; a sentence with sequence number 1 that
\* reports satellites 1 and 2 only was read last, and 4 is still there.
C23_Witness ==
    /\ lastGSV = GsvMixed("GP")
    /\ Len(gpsSatellites) = 3
    /\ gpsSatellites[1].id = 4
    /\ Ids(gpsSatellites) = {4, 1, 2}

-----------------------------------------------------------------------------
(* The catalog after a burst of more than 32 satellites.                   *)

\* What the receiver reported for satellite id of a burst without a weak
\* slot.
Reported1(id) == Satellite(id, ElevationOf(id), AzimuthOf(id), SnrOf(id))

\* C24: after the GSV sentence that takes a catalog beyond 32 entries, the
\* catalog holds exactly the 28 entries appended last, in the order they
\* were appended.
C24_OverflowKeepsLast28 ==
    (BurstDone /\ burst.n > Cap) =>
        BurstCatalog = [i \in 1..Keep |-> Reported1(burst.n - Keep + i)]

\* The module-level catalog after such a burst still holds every entry.
OverflowKeepsAll ==
    (BurstDone /\ burst.n > Cap) =>
        BurstCatalog = [i \in 1..burst.n |-> Reported1(i)]

\* A burst of 33 satellites has been read to its end.
OverflowReached == BurstDone /\ burst.n = Cap + 1 /\ Len(BurstCatalog) = Cap + 1

-----------------------------------------------------------------------------
(* What a call of status() does to the time of the last valid fix.         *)

\* C25: a call of status() that answers "outdoor" on the evidence of the
\* cached GGA (fix quality 1, 2 or 4) or RMC (validity A) sets the time of
\* the last valid fix to the current time; a call that decides by the age
\* or by the satellites leaves it as it was.
C25_StampOnlyOnEvidence ==
    [][Status =>
           IF CachedEvidence
           THEN status = "outdoor" /\ lastValidFixMs' = millis
           ELSE lastValidFixMs' = lastValidFixMs]_vars

\* status() has recorded a time later than that of the last sentence
\* reporting a fix.
C25_Witness ==
    /\ CachedEvidence
    /\ lastValidFixMs = millis
    /\ lastValidFixMs > lastQualMs
    /\ lastQualMs > 0

\* status() answers "outdoor" by the satellites alone, the time of the last
\* valid fix being older than the clock.
OutdoorBySatellites ==
    ~CachedEvidence /\ status = "outdoor" /\ lastValidFixMs < millis

-----------------------------------------------------------------------------
(* How a GSV sentence is merged into its catalog.                          *)

\* The slot is one parseGSV enters: id and snr are numbers above 0.
SlotTaken(line, k) ==
    SlotIdPositive(line, k) /\ GtZero(parseInt(SlotField(line, k, 3)))

SlotId(line, k) == parseInt(SlotField(line, k, 0)).val

TakenSlots(line) == {k \in 1..NumSlots(line) : SlotTaken(line, k)}

TakenIds(line) == {SlotId(line, k) : k \in TakenSlots(line)}

\* The first and the last slot of the sentence entered for this id.
FirstSlot(line, id) ==
    CHOOSE k \in TakenSlots(line) :
        /\ SlotId(line, k) = id
        /\ \A j \in TakenSlots(line) : SlotId(line, j) = id => k <= j
LastSlot(line, id) ==
    CHOOSE k \in TakenSlots(line) :
        /\ SlotId(line, k) = id
        /\ \A j \in TakenSlots(line) : SlotId(line, j) = id => j <= k

\* `after` is `before` with the sentence merged in: known satellites keep
\* their place, those the sentence does not report keep their values, new
\* ones follow at the end in the order of the sentence, and every
\* satellite the sentence reports holds the values of its last slot.
MergedById(before, after, line) ==
    /\ Len(after) = Len(before) + Cardinality(TakenIds(line) \ Ids(before))
    /\ \A i \in 1..Len(before) :
           /\ after[i].id = before[i].id
           /\ before[i].id \notin TakenIds(line) => after[i] = before[i]
    /\ \A i \in (Len(before) + 1)..Len(after) :
           /\ after[i].id \in TakenIds(line) \ Ids(before)
           /\ \A j \in (i + 1)..Len(after) :
                  /\ after[j].id \in TakenIds(line)
                  /\ FirstSlot(line, after[i].id) < FirstSlot(line, after[j].id)
    /\ \A i \in 1..Len(after) :
           after[i].id \in TakenIds(line) =>
               after[i] = SlotEntry(line, LastSlot(line, after[i].id))

\* C26: every slot a GSV sentence enters overwrites the entry with its id
\* where that entry stands, all other entries and their order unchanged,
\* or is appended at the end when no entry has its id; the entry then holds
\* the elevation, azimuth and snr of the last slot decoded for that id.
C26_OverwriteInPlaceOrAppend ==
    [][\A line \in GsvLines :
           (accepted(line) /\ Len(line) >= 8 /\ readAndParseLine(line)) =>
               IF isBDS(line)
               THEN MergedById(bdsSatellites, bdsSatellites', line)
               ELSE MergedById(gpsSatellites, gpsSatellites', line)]_vars

\* Satellite 1 was overwritten where it stood, ahead of 2 and 4, and
\* satellite 4 holds the values of the second of its two slots.
C26_Witness ==
    /\ lastGSV = GsvAgain
    /\ Len(gpsSatellites) = 3
    /\ gpsSatellites[1] = Satellite(1, 45, 90, 33)
    /\ gpsSatellites[2].id = 2
    /\ gpsSatellites[3] = Satellite(4, 11, 101, 21)

-----------------------------------------------------------------------------
(* Calls of the accessors between the sentences.  stampNoCalls follows the *)
(* assignments of readAndParseLine() to lastValidFixMs and none of those   *)
(* of status(): it is lastValidFixMs of the run with the same lines at the *)
(* same times and no accessor call.                                        *)

QueryLines ==
    {GGA("1"), GGA("0"), RMC("A"), RMC("V"), GsvHead, GsvBds}

ReadQueryLine ==
    \E line \in QueryLines :
        /\ readAndParseLine(line)
        /\ stampNoCalls' = IF accepted(line) /\ refreshesFix(line)
                           THEN millis ELSE stampNoCalls
        /\ delivered' = line
        /\ UNCHANGED <<millis, burst, lastQualMs, logRepeats, reads, stream,
                       logVars, cycleVars, startVars>>

NextQuery ==
    \/ UseGnssSerial
    \/ UseUsbSerial
    \/ CallReadAndParseLine
    \/ ReadQueryLine
    \/ Status
    \/ Latitude
    \/ Longitude
    \/ SpeedKmh
    \/ ClearSatellites
    \/ Tick

SpecQuery == Init /\ [][NextQuery]_vars

\* What status() would return now had no accessor been called before.
statusNoCalls ==
    statusOf(lastGGA, lastRMC, gpsSatellites, bdsSatellites, millis,
             stampNoCalls)

\* C27: for the same lines read at the same times, status() never answers
\* "indoor" where it would answer "outdoor" had no accessor been called
\* before: the calls set nothing but the time of the last valid fix, and
\* only to a later time.
C27_CallsOnlyFavourOutdoor ==
    /\ stampNoCalls <= lastValidFixMs
    /\ statusNoCalls = "outdoor" => status = "outdoor"

\* An accessor was called while a fix was reported; the fix is gone since,
\* and status() answers "outdoor" by the satellites where it would answer
\* "indoor" by the age had the accessor not been called.
C27_Witness ==
    /\ stampNoCalls < lastValidFixMs
    /\ ~CachedEvidence
    /\ tooOld(millis, stampNoCalls)
    /\ status = "outdoor"
    /\ statusNoCalls = "indoor"

\* C27 as stated: status() returns the same value whether or not an
\* accessor was called before.
C27_CallsLeaveNoTrace == status = statusNoCalls

-----------------------------------------------------------------------------
(* The sentences that refresh the time of the last valid fix.              *)

\* status() would count the sentence, once cached, as direct evidence.
CountsAsEvidence(line) ==
    \/ sentenceOf(line) = "GGA" /\ evidenceGGA(line)
    \/ sentenceOf(line) = "RMC" /\ evidenceRMC(line)

\* C28: readAndParseLine() sets the time of the last valid fix to the
\* current time for exactly the sentences status() counts as direct
\* evidence (GGA with fix quality 1, 2 or 4, RMC with validity A) and
\* leaves it as it was for every other sentence.
C28_RefreshMatchesEvidence ==
    [][\A line \in Lines :
           (accepted(line) /\ readAndParseLine(line)) =>
               IF CountsAsEvidence(line)
               THEN lastValidFixMs' = millis
               ELSE lastValidFixMs' = lastValidFixMs]_vars

\* The same for the sentences other than a GGA with fix quality 4.
RefreshMatchesEvidenceBut4 ==
    [][\A line \in Lines \ {GGA("4")} :
           (accepted(line) /\ readAndParseLine(line)) =>
               IF CountsAsEvidence(line)
               THEN lastValidFixMs' = millis
               ELSE lastValidFixMs' = lastValidFixMs]_vars

\* A GGA with fix quality 4 is cached and the time of the last valid fix is
\* older than the time it was read at.
Quality4NotRefreshed ==
    lastGGA = GGA("4") /\ lastValidFixMs < lastQualMs

-----------------------------------------------------------------------------
(* readAndParseLine() while the serial port is not on the receiver.        *)

\* C29: while the serial port is not switched to the receiver,
\* readAndParseLine() reads no line and leaves the cached sentences, both
\* catalogs and the time of the last valid fix as they were.
C29_PortOffReadsNothing ==
    [][\A line \in QueryLines :
           (~isGnssSerial /\ readAndParseLine(line)) =>
               /\ CachedSentences' = CachedSentences
               /\ Catalogs' = Catalogs
               /\ lastValidFixMs' = lastValidFixMs
               /\ delivered' = delivered]_vars

\* A call made while the port is off returns at once: it does not wait for
\* a line and changes nothing.
PortOffCallReturns ==
    [][(~isGnssSerial /\ CallReadAndParseLine) =>
           reading' = reading /\ UNCHANGED <<mainVars, delivered>>]_vars

\* The port is off and a call made before useUsbSerial() still waits for its
\* line.
PortOffCallWaiting == ~isGnssSerial /\ reading > 0

\* The port is off and the GGA sentence a waiting call read since is cached.
PortOffLineCached ==
    /\ ~isGnssSerial
    /\ reading = 0
    /\ delivered = GGA("1")
    /\ lastGGA = GGA("1")
    /\ lastRMC = EmptyLine
    /\ lastGSV = EmptyLine

====
